---- MODULE Spec2Model ----
(***************************************************************************)
(* Provider aggregation engine of Socialite: services/aggregator.py        *)
(* (discovery, fan-out, sanitize, dedupe, sort, paginate) and the country  *)
(* coercion of providers/base.py.                                          *)
(*                                                                         *)
(* Python values are modelled as sequences:                                *)
(*   str   -> the sequence of its characters, <<"L", "T">>                 *)
(*   None  -> <<"None">>                                                   *)
(*   dict  -> <<"dict", v1, .., v4>> (country objects, the four keys       *)
(*            _coerce_country reads; a missing key holds None)             *)
(*   list  -> <<"list">> (a non-empty list: truthy and unhashable)         *)
(*   datetime -> <<"datetime">>                                            *)
(*   other -> <<"int">> (a non-zero int)                                   *)
(* A tag has more than one character, so it never equals a character.      *)
(***************************************************************************)
EXTENDS Integers, Sequences, FiniteSets, TLC

VARIABLES
    \* --- the provider package on disk (environment of discovery)
    pkgMode,      \* how importing the "providers" package behaves
    mods,         \* the provider modules found on disk, in scan order
    \* --- aggregator module globals
    PROVIDERS,    \* _PROVIDERS
    DISCOVERY,    \* _DISCOVERY
    sfn,          \* the variable sfn of _load_providers that every _call closes over
    runs,         \* number of _load_providers runs so far
    loadOutcome,  \* how the last _load_providers call ended
    \* --- one search_events request
    pool,         \* the raw items providers may return in this scenario
    maxChunk,     \* longest list a provider returns in this scenario
    countries,    \* the country arguments callers pass in this scenario
    listed,       \* what the last list_providers call returned
    pc,           \* position of _search_events_async
    req,          \* the request's arguments
    tasks,        \* per active provider: state of its _call_provider task
    settled,      \* the tasks in the order they completed, where a scenario observes it
    merged,       \* the local items after the sanitize loop (before _dedupe)
    items,        \* the local items after _dedupe and sort (before the slice)
    result,       \* what search_events returned
    \* --- one call of the country coercion
    value,        \* the raw country value
    default,      \* the default handed to _coerce_country
    coerced,      \* the value produced
    cpc,          \* which function produced it
    \* --- one call of a pure function
    called,       \* the function called
    args,         \* its arguments
    ret           \* what it returned

vars == <<pkgMode, mods, PROVIDERS, DISCOVERY, sfn, runs, loadOutcome,
          pool, maxChunk, countries, listed, pc, req, tasks, settled, merged, items, result,
          value, default, coerced, cpc, called, args, ret>>

discoveryVars == <<pkgMode, mods, PROVIDERS, DISCOVERY, sfn, runs, loadOutcome>>
searchVars    == <<pool, maxChunk, countries, listed, pc, req, tasks, settled, merged, items, result>>
countryVars   == <<value, default, coerced, cpc>>
callVars      == <<called, args, ret>>

-----------------------------------------------------------------------------
(* Bounds of the model *)

MaxStrLen == 3      \* longest enumerated raw country string
MaxRuns == 2        \* discovery runs per behaviour
MaxChunk == 2       \* items one provider returns in the fan-out scenarios
MaxList == 3        \* items the single provider returns in the pipeline scenarios
MaxLimit == 2       \* largest page size requested
MaxOffset == 2      \* largest offset requested

-----------------------------------------------------------------------------
(* Python values and str methods *)

None == <<"None">>
OtherValue == <<"int">>
ListValue == <<"list">>
DateTimeValue == <<"datetime">>

IsDict(v) == Len(v) > 0 /\ v[1] = "dict"
TypeOf(v) ==
  IF v = None THEN "NoneType"
  ELSE IF v = OtherValue THEN "int"
  ELSE IF v = ListValue THEN "list"
  ELSE IF v = DateTimeValue THEN "datetime"
  ELSE IF IsDict(v) THEN "dict"
  ELSE "str"
IsStr(v) == TypeOf(v) = "str"
Hashable(v) == TypeOf(v) \notin {"list", "dict"}

CharOrder ==
  <<" ", "-", ".", "0", "1", "2", "3", "4", "5", "6", "7", "8", "9", ":", "@",
    "A", "B", "C", "D", "E", "F", "G", "H", "I", "J", "K", "L", "M", "N", "O",
    "P", "Q", "R", "S", "T", "U", "V", "W", "X", "Y", "Z", "_",
    "a", "b", "c", "d", "e", "f", "g", "h", "i", "j", "k", "l", "m", "n", "o",
    "p", "q", "r", "s", "t", "u", "v", "w", "x", "y", "z">>

UpperChars == SubSeq(CharOrder, 16, 41)
LowerChars == SubSeq(CharOrder, 43, 68)

Chars == {CharOrder[i] : i \in 1..Len(CharOrder)}
IndexIn(seq, c) == CHOOSE i \in 1..Len(seq) : seq[i] = c
IsIn(seq, c) == \E i \in 1..Len(seq) : seq[i] = c

\* per character: its code-point rank, its upper and lower case, its class
OrdOf == [c \in Chars |-> IndexIn(CharOrder, c)]
UpperOf ==
  [c \in Chars |-> IF IsIn(LowerChars, c) THEN UpperChars[IndexIn(LowerChars, c)] ELSE c]
LowerOf ==
  [c \in Chars |-> IF IsIn(UpperChars, c) THEN LowerChars[IndexIn(UpperChars, c)] ELSE c]
AlphaChars == {c \in Chars : IsIn(UpperChars, c) \/ IsIn(LowerChars, c)}

Ord(c) == OrdOf[c]
IsAlphaChar(c) == c \in AlphaChars
IsSpaceChar(c) == c \in {" ", "\t"}
UpperChar(c) == IF c \in Chars THEN UpperOf[c] ELSE c
LowerChar(c) == IF c \in Chars THEN LowerOf[c] ELSE c

\* str.upper(), str.lower(), str.isalpha()
Upper(s) == [i \in 1..Len(s) |-> UpperChar(s[i])]
Lower(s) == [i \in 1..Len(s) |-> LowerChar(s[i])]
IsAlpha(s) == Len(s) > 0 /\ \A i \in 1..Len(s) : IsAlphaChar(s[i])

\* str.strip()
RECURSIVE LStrip(_)
LStrip(s) == IF s # <<>> /\ IsSpaceChar(Head(s)) THEN LStrip(Tail(s)) ELSE s
RECURSIVE RStrip(_)
RStrip(s) ==
  IF s # <<>> /\ IsSpaceChar(s[Len(s)]) THEN RStrip(SubSeq(s, 1, Len(s) - 1)) ELSE s
Strip(s) == RStrip(LStrip(s))

\* s[:n]
Prefix(s, n) == SubSeq(s, 1, IF Len(s) < n THEN Len(s) ELSE n)

\* Python's truth value of v ("if v:", "v or w")
Truthy(v) ==
  /\ v # None
  /\ v # <<>>
  /\ IsDict(v) => \E i \in 2..Len(v) : v[i] # None

\* a < b for two str, by code point
RECURSIVE StrLess(_, _)
StrLess(a, b) ==
  IF b = <<>> THEN FALSE
  ELSE IF a = <<>> THEN TRUE
  ELSE IF Head(a) = Head(b) THEN StrLess(Tail(a), Tail(b))
  ELSE Ord(Head(a)) < Ord(Head(b))

\* all str over an alphabet, of length at most n
StringsUpTo(alphabet, n) == UNION {[1..k -> alphabet] : k \in 0..n}

-----------------------------------------------------------------------------
(* providers/base.py: country coercion *)

\* _COUNTRY_ALIASES (its two Cyrillic keys are outside the model's alphabet)
COUNTRY_ALIASES ==
  (<<"l", "t">> :> <<"L", "T">>) @@
  (<<"l", "i", "t", "h", "u", "a", "n", "i", "a">> :> <<"L", "T">>) @@
  (<<"l", "i", "e", "t", "u", "v", "a">> :> <<"L", "T">>) @@
  (<<"l", "v">> :> <<"L", "V">>) @@
  (<<"l", "a", "t", "v", "i", "a">> :> <<"L", "V">>) @@
  (<<"l", "a", "t", "v", "i", "j", "a">> :> <<"L", "V">>) @@
  (<<"e", "e">> :> <<"E", "E">>) @@
  (<<"e", "s", "t", "o", "n", "i", "a">> :> <<"E", "E">>) @@
  (<<"e", "e", "s", "t", "i">> :> <<"E", "E">>) @@
  (<<"p", "l">> :> <<"P", "L">>) @@
  (<<"p", "o", "l", "a", "n", "d">> :> <<"P", "L">>) @@
  (<<"d", "e">> :> <<"D", "E">>) @@
  (<<"g", "e", "r", "m", "a", "n", "y">> :> <<"D", "E">>) @@
  (<<"d", "e", "u", "t", "s", "c", "h", "l", "a", "n", "d">> :> <<"D", "E">>) @@
  (<<"s", "e">> :> <<"S", "E">>) @@
  (<<"s", "w", "e", "d", "e", "n">> :> <<"S", "E">>) @@
  (<<"f", "i">> :> <<"F", "I">>) @@
  (<<"f", "i", "n", "l", "a", "n", "d">> :> <<"F", "I">>) @@
  (<<"n", "o">> :> <<"N", "O">>) @@
  (<<"n", "o", "r", "w", "a", "y">> :> <<"N", "O">>) @@
  (<<"r", "u">> :> <<"R", "U">>) @@
  (<<"r", "u", "s", "s", "i", "a">> :> <<"R", "U">>) @@
  (<<"b", "y">> :> <<"B", "Y">>) @@
  (<<"b", "e", "l", "a", "r", "u", "s">> :> <<"B", "Y">>)

\* the keys tried on a dict, in order: countryCode, addressCountry, name, code
DictKeys == <<"countryCode", "addressCountry", "name", "code">>
DictGet(d, i) == d[i + 1]
MkDict(cc, ac, nm, cd) == <<"dict", cc, ac, nm, cd>>

\* the string branch of _coerce_country
CoerceCountryStrNoUpper(v, dflt) ==
  LET s == Strip(v) IN
  IF Len(s) = 2 /\ IsAlpha(s) THEN s
  ELSE IF Lower(s) \in DOMAIN COUNTRY_ALIASES THEN COUNTRY_ALIASES[Lower(s)]
  ELSE IF Len(s) >= 2 THEN Upper(Prefix(s, 2)) ELSE dflt

CoerceCountryStr(v, dflt) ==
  LET s == Strip(v) IN
  IF Len(s) = 2 /\ IsAlpha(s) THEN Upper(s)
  ELSE IF Lower(s) \in DOMAIN COUNTRY_ALIASES THEN COUNTRY_ALIASES[Lower(s)]
  ELSE IF Len(s) >= 2 THEN Upper(Prefix(s, 2)) ELSE dflt

\* _coerce_country(value, default)
RECURSIVE CoerceCountry(_, _)
CoerceCountry(v, dflt) ==
  IF v = None THEN dflt
  ELSE IF IsDict(v) THEN
    LET hits == {i \in 1..Len(DictKeys) : Truthy(DictGet(v, i))} IN
    IF hits = {} THEN dflt
    ELSE CoerceCountry(DictGet(v, CHOOSE i \in hits : \A j \in hits : i <= j), dflt)
  ELSE IF IsStr(v) THEN CoerceCountryStr(v, dflt)
  ELSE dflt

-----------------------------------------------------------------------------
(* services/aggregator.py: provider discovery *)

PkgName == <<"p", "r", "o", "v", "i", "d", "e", "r", "s">>
PackageKey == <<"_", "_", "p", "a", "c", "k", "a", "g", "e", "_", "_">>
Dot == "."

\* s.split(".")[-1] and s.rsplit(".", 1)[-1]
RECURSIVE LastPart(_)
LastPart(s) ==
  IF \E i \in 1..Len(s) : s[i] = Dot
  THEN LastPart(SubSeq(s, (CHOOSE i \in 1..Len(s) : s[i] = Dot) + 1, Len(s)))
  ELSE s

StartsWith(s, p) == Len(s) >= Len(p) /\ SubSeq(s, 1, Len(p)) = p

\* a provider module on disk: what importing it and resolving its entry points does
\*   imp: "ok" | "raise"               import_module(mod_name)
\*   fn:  TRUE when the module has a callable search
\*   cls: "none" | "ok" | "raise" | "nosearch"   the module's Provider class
\*   fac: "none" | "ok" | "raise" | "nosearch"   the module's get_provider()
ModName(m) == PkgName \o <<Dot>> \o m.leaf

\* _iter_provider_modules(): the names yielded, in order
IterProviderModules(mode, ms) ==
  IF mode = "no_root" THEN <<>>
  ELSE LET pub == SelectSeq(ms, LAMBDA m : ~StartsWith(m.leaf, <<"_">>))
       IN [i \in 1..Len(pub) |-> ModName(pub[i])]

\* the "__package__" entry _iter_provider_modules records when the import fails
PackageErrors(mode) ==
  IF mode = "ok" THEN [k \in {} |-> ""]
  ELSE (PackageKey :> "package_import_error")

\* the keyword arguments _call_provider offers every provider
RawKwargs == {"city", "country", "start", "end", "query"}

ModuleOf(ms, mod_name) ==
  LET hit == {i \in 1..Len(ms) : ModName(ms[i]) = mod_name} IN
  IF hit = {} THEN [leaf |-> LastPart(mod_name), imp |-> "raise", fn |-> FALSE,
                    cls |-> "none", fac |-> "none", async |-> FALSE,
                    params |-> RawKwargs, sig |-> "ok"]
  ELSE ms[CHOOSE i \in hit : TRUE]

Unbound == [module |-> <<>>, via |-> "unbound"]
NotCallable(mod_name, via) == [module |-> mod_name, via |-> "not_callable:" \o via]
BoundSearch(mod_name, via) == [module |-> mod_name, via |-> via]

MkProvider(key, mod_name, via, wrapped, is_async) ==
  [key |-> key, module |-> mod_name, via |-> via, wrapped |-> wrapped,
   is_async |-> is_async, name |-> key]

SetError(st, mod_name, msg) ==
  [st EXCEPT !.errors = (mod_name :> msg) @@ st.errors]

AddProvider(st, key, mod_name, via, target, is_async) ==
  [st EXCEPT
     !.providers = Append(@, MkProvider(key, mod_name, via, target, is_async)),
     !.loaded = Append(@, [key |-> key, module |-> mod_name, via |-> via])]

AddSkipped(st, mod_name) ==
  [st EXCEPT !.skipped = Append(@, [module |-> mod_name, reason |-> "no_search_function"])]

\* step 3 of the loop body: the get_provider() factory, then the skipped entry
LoadFactory(st, m, key, mod_name) ==
  IF m.fac = "none" THEN AddSkipped(st, mod_name)
  ELSE IF m.fac = "raise"
    THEN AddSkipped(SetError(st, mod_name, "get_provider() failed"), mod_name)
  ELSE IF m.fac = "ok"
    THEN AddProvider([st EXCEPT !.sfn = BoundSearch(mod_name, "get_provider")],
                     key, mod_name, "get_provider",
                     BoundSearch(mod_name, "get_provider"), m.async)
  ELSE AddSkipped([st EXCEPT !.sfn = NotCallable(mod_name, "get_provider")], mod_name)

\* step 2 of the loop body: the Provider class
LoadClass(st, m, key, mod_name) ==
  IF m.cls = "none" THEN LoadFactory(st, m, key, mod_name)
  ELSE IF m.cls = "raise"
    THEN LoadFactory(SetError(st, mod_name, "Provider() init failed"), m, key, mod_name)
  ELSE IF m.cls = "ok"
    THEN AddProvider([st EXCEPT !.sfn = BoundSearch(mod_name, "Provider")],
                     key, mod_name, "Provider",
                     BoundSearch(mod_name, "Provider"), m.async)
  ELSE LoadFactory([st EXCEPT !.sfn = NotCallable(mod_name, "Provider")], m, key, mod_name)

\* a loop body without the outer try/except: an import error ends the whole run
LoadModuleAbortOnImportError(st, ms, mod_name) ==
  LET key == LastPart(mod_name)
      m == ModuleOf(ms, mod_name)
  IN IF st.aborted \/ m.imp = "raise" THEN [st EXCEPT !.aborted = TRUE]
     ELSE IF m.fn
       THEN AddProvider(st, key, mod_name, "function",
                        BoundSearch(mod_name, "function"), m.async)
     ELSE LoadClass(st, m, key, mod_name)

\* a loop body that goes on to the next shape after loading the module
\* through a module-level search
LoadModuleEveryShape(st, ms, mod_name) ==
  LET key == LastPart(mod_name)
      m == ModuleOf(ms, mod_name)
  IN IF m.imp = "raise" THEN SetError(st, mod_name, "ImportError")
     ELSE IF m.fn
       THEN LoadClass(AddProvider(st, key, mod_name, "function",
                                  BoundSearch(mod_name, "function"), m.async),
                      m, key, mod_name)
     ELSE LoadClass(st, m, key, mod_name)

\* one iteration of the loop of _load_providers
LoadModule(st, ms, mod_name) ==
  LET key == LastPart(mod_name)
      m == ModuleOf(ms, mod_name)
  IN IF m.imp = "raise" THEN SetError(st, mod_name, "ImportError")
     ELSE IF m.fn
       THEN AddProvider(st, key, mod_name, "function",
                        BoundSearch(mod_name, "function"), m.async)
     ELSE LoadClass(st, m, key, mod_name)

RECURSIVE LoadLoop(_, _, _)
LoadLoop(st, ms, mod_names) ==
  IF mod_names = <<>> THEN st
  ELSE LoadLoop(LoadModule(st, ms, Head(mod_names)), ms, Tail(mod_names))

\* the state _load_providers(mod_names) leaves; mod_names = None scans the package
LoadResult(mode, ms, discovered, mod_names) ==
  LET scanned == IterProviderModules(mode, ms)
      names == IF mod_names = None THEN scanned ELSE mod_names
      st0 == [providers |-> <<>>, loaded |-> <<>>, skipped |-> <<>>,
              errors |-> IF mod_names = None THEN PackageErrors(mode)
                         ELSE [k \in {} |-> ""],
              sfn |-> Unbound, aborted |-> FALSE]
      st == LoadLoop(st0, ms, names)
  IN [providers |-> st.providers,
      discovery |-> [discovered_modules |->
                        IF mod_names = None THEN discovered \o scanned ELSE discovered,
                     loaded |-> st.loaded, skipped |-> st.skipped, errors |-> st.errors],
      sfn |-> st.sfn,
      outcome |-> IF st.aborted THEN "raised" ELSE "returned"]

\* what adapter p's fn runs when it is called: a module-level search is called
\* directly, a _call wrapper calls whatever its enclosing sfn holds at call time
Callee(p, cell) == IF p.via = "function" THEN p.wrapped ELSE cell

\* _load_providers()
LoadProviders ==
  /\ runs < MaxRuns
  /\ pc = "idle"
  /\ LET r == LoadResult(pkgMode, mods, DISCOVERY.discovered_modules, None) IN
       /\ PROVIDERS' = r.providers
       /\ DISCOVERY' = r.discovery
       /\ sfn' = r.sfn
       /\ loadOutcome' = r.outcome
  /\ runs' = runs + 1
  /\ UNCHANGED <<pkgMode, mods, searchVars, countryVars, callVars>>

-----------------------------------------------------------------------------
(* services/aggregator.py: the search pipeline *)

\* a raw item is a dict with these keys; a key the provider left out holds
\* Missing (only "source" is read with setdefault, every other key with get)
Missing == <<"Missing">>
Get(e, f) == IF e[f] = Missing THEN None ELSE e[f]
OrEmpty(v) == IF Truthy(v) THEN v ELSE <<>>

MockWord == <<"m", "o", "c", "k">>
DefaultCountry == <<"L", "T">>
SortSentinel == <<"9", "9", "9", "9", "-", "1", "2", "-", "3", "1", "T", "0", "0", ":", "0", "0", ":", "0", "0", "Z">>
ErrText == <<"RuntimeError: provider failed">>

\* sub in s
Contains(s, sub) ==
  \E i \in 1..(Len(s) - Len(sub) + 1) : SubSeq(s, i, i + Len(sub) - 1) = sub

\* a filter that ignores include_mock
ActiveProvidersAll(providers, include_mock) == providers

\* _discover_providers() filtered by include_mock
ActiveProviders(providers, include_mock) ==
  IF include_mock = FALSE
  THEN SelectSeq(providers, LAMBDA p : ~Contains(Lower(p.key), MockWord))
  ELSE providers

\* a _call_provider that assigns e["source"] = p.key to every item
CallProviderItemsOverwrite(key, chunk) ==
  [i \in 1..Len(chunk) |-> [chunk[i] EXCEPT !.source = key]]

\* _call_provider after the provider returned chunk: every item gets its source
CallProviderItems(key, chunk) ==
  [i \in 1..Len(chunk) |->
     IF chunk[i].source = Missing THEN [chunk[i] EXCEPT !.source = key] ELSE chunk[i]]

\* _sanitize_item
SanitizeItem(ev, default_cc) ==
  LET cc == CoerceCountry(Get(ev, "country"), default_cc)
  IN [ev |-> [ev EXCEPT !.country = cc], keep |-> Truthy(cc)]

DefaultCC(country) ==
  IF Truthy(country) THEN Upper(Prefix(country, 2)) ELSE DefaultCountry

SanitizeChunk(chunk, default_cc) ==
  LET s == [i \in 1..Len(chunk) |-> SanitizeItem(chunk[i], default_cc)]
      kept == SelectSeq(s, LAMBDA x : x.keep)
  IN [i \in 1..Len(kept) |-> kept[i].ev]

\* the loop over results: the items of the providers without err, in task order
RECURSIVE MergeResults(_, _)
MergeResults(results, country) ==
  IF results = <<>> THEN <<>>
  ELSE (IF Truthy(Head(results).err) THEN <<>>
        ELSE SanitizeChunk(Head(results).items, DefaultCC(country)))
       \o MergeResults(Tail(results), country)

ProviderErrorsNone(results) == [k \in {} |-> None]

ProviderErrors(results) ==
  LET failed == {i \in 1..Len(results) : Truthy(results[i].err)}
  IN [k \in {results[i].key : i \in failed} |->
        results[CHOOSE i \in failed :
                  results[i].key = k /\ \A j \in failed : results[j].key = k => j <= i].err]

\* a key that leaves the venue out
DedupeKeyNoVenue(e) ==
  IF Truthy(Get(e, "url")) THEN <<"url", Get(e, "url")>>
  ELSE <<"tuple", Lower(Strip(OrEmpty(Get(e, "title")))), Get(e, "start_time"),
         <<>>, Lower(Strip(OrEmpty(Get(e, "city"))))>>

\* the key _dedupe gives an item
DedupeKey(e) ==
  IF Truthy(Get(e, "url")) THEN <<"url", Get(e, "url")>>
  ELSE <<"tuple", Lower(Strip(OrEmpty(Get(e, "title")))), Get(e, "start_time"),
         Lower(Strip(OrEmpty(Get(e, "venue_name")))), Lower(Strip(OrEmpty(Get(e, "city"))))>>

\* whether building or hashing the key of e raises
DedupeKeyRaises(e) ==
  IF Truthy(Get(e, "url")) THEN ~Hashable(Get(e, "url"))
  ELSE \/ \E f \in {"title", "venue_name", "city"} : Truthy(Get(e, f)) /\ ~IsStr(Get(e, f))
       \/ ~Hashable(Get(e, "start_time"))

RECURSIVE DedupeFrom(_, _, _)
DedupeFrom(list, seen, out) ==
  IF list = <<>> THEN out
  ELSE LET key == DedupeKey(Head(list)) IN
       IF key \in seen THEN DedupeFrom(Tail(list), seen, out)
       ELSE DedupeFrom(Tail(list), seen \cup {key}, Append(out, Head(list)))

\* a deduplicator in which the last occurrence replaces the earlier one
RECURSIVE DedupeKeepLast(_)
DedupeKeepLast(list) ==
  IF list = <<>> THEN <<>>
  ELSE LET rest == Tail(list) IN
       IF \E i \in 1..Len(rest) : DedupeKey(rest[i]) = DedupeKey(Head(list))
       THEN DedupeKeepLast(rest)
       ELSE <<Head(list)>> \o DedupeKeepLast(rest)

\* _dedupe
Dedupe(list) == DedupeFrom(list, {}, <<>>)

\* _sort_key
SortKey(e) ==
  <<IF Truthy(Get(e, "start_time")) THEN Get(e, "start_time") ELSE SortSentinel,
    Lower(OrEmpty(Get(e, "title")))>>

\* a < b for two sort keys (tuples compare element by element)
KeyLess(a, b) == StrLess(a[1], b[1]) \/ (a[1] = b[1] /\ StrLess(a[2], b[2]))

\* whether items.sort(key=_sort_key) raises: a title without lower(), or two
\* start values of different types meeting in a comparison
SortRaises(list) ==
  \/ \E i \in 1..Len(list) : Truthy(Get(list[i], "title")) /\ ~IsStr(Get(list[i], "title"))
  \/ \E i, j \in 1..Len(list) : TypeOf(SortKey(list[i])[1]) # TypeOf(SortKey(list[j])[1])

RECURSIVE InsertSorted(_, _)
InsertSorted(sorted, e) ==
  IF sorted = <<>> THEN <<e>>
  ELSE IF KeyLess(SortKey(e), SortKey(Head(sorted))) THEN <<e>> \o sorted
  ELSE <<Head(sorted)>> \o InsertSorted(Tail(sorted), e)

RECURSIVE SortFrom(_, _)
SortFrom(list, sorted) ==
  IF list = <<>> THEN sorted
  ELSE SortFrom(Tail(list), InsertSorted(sorted, Head(list)))

\* items.sort(key=_sort_key): stable, ascending
SortItems(list) == SortFrom(list, <<>>)

\* items[offset: offset + limit] for offset >= 0 and limit >= 0
PageFromStart(list, offset, limit) ==
  SubSeq(list, 1, IF limit < Len(list) THEN limit ELSE Len(list))

Page(list, offset, limit) ==
  SubSeq(list, offset + 1, IF offset + limit < Len(list) THEN offset + limit ELSE Len(list))

\* the lists a provider may return: at most n raw items of the pool
Chunks(p, n) == UNION {[1..k -> p] : k \in 0..n}

AllSettledAny(ts) == ts = <<>> \/ \E i \in 1..Len(ts) : ts[i].st # "running"

\* asyncio.gather(*tasks, return_exceptions=True) is ready
AllSettled(ts) == \A i \in 1..Len(ts) : ts[i].st # "running"

\* the requests of a scenario: keyword arguments of search_events; days_ahead
\* and start_in_days keep their defaults
Requests(cs) ==
  [country : cs, include_mock : BOOLEAN,
   limit : 1..MaxLimit, offset : 0..MaxOffset]

DefaultDaysAhead == 60
DefaultStartInDays == 0

\* _date_window(start_in_days, days_ahead) as debug.window reports it: the days
\* counted from the current UTC day, and the time of day
DateWindow(start_in_days, days_ahead) ==
  [start |-> <<start_in_days, "00:00:00">>,
   end |-> <<start_in_days + days_ahead, "23:59:59">>]

NoRequest == [country |-> None, include_mock |-> FALSE, limit |-> 0, offset |-> 0]
NoResult == [outcome |-> "none"]

\* _filter_kwargs(p.fn, **raw_kwargs): the arguments the signature of
\* p.fn.__wrapped__ (or of p.fn) declares; all five when it cannot be read
FilterKwargs(ms, p) ==
  LET target == ModuleOf(ms, p.wrapped.module) IN
  IF target.sig = "ok" THEN RawKwargs \cap target.params ELSE RawKwargs

\* the parameters of the search that runs when adapter p is called
CalleeParams(ms, p, cell) == ModuleOf(ms, Callee(p, cell).module).params

\* _search_events_async up to the await of gather: select the providers and
\* create one _call_provider task per active provider
StartSearch ==
  /\ pc = "idle"
  /\ \E r \in Requests(countries) :
       LET active == ActiveProviders(PROVIDERS, r.include_mock) IN
       /\ req' = r
       /\ tasks' = [i \in 1..Len(active) |->
                      [key |-> active[i].key, provider |-> active[i], st |-> "running",
                       kwargs |-> FilterKwargs(mods, active[i]),
                       ret |-> <<>>, items |-> <<>>, err |-> None]]
  /\ pc' = "gather"
  /\ UNCHANGED <<pool, maxChunk, countries, listed, settled, merged, items, result, discoveryVars, countryVars, callVars>>

\* the provider called by task i returns a list of raw items
ProviderReturn(i) ==
  /\ pc = "gather"
  /\ tasks[i].st = "running"
  /\ Callee(tasks[i].provider, sfn).via \in {"function", "Provider", "get_provider"}
  /\ tasks[i].kwargs \subseteq CalleeParams(mods, tasks[i].provider, sfn)
  /\ \E chunk \in Chunks(pool, maxChunk) :
       tasks' = [tasks EXCEPT ![i] = [@ EXCEPT !.st = "returned", !.ret = chunk,
                                        !.items = CallProviderItems(tasks[i].key, chunk)]]
  /\ UNCHANGED <<pool, maxChunk, countries, listed, pc, req, settled, merged, items, result, discoveryVars, countryVars, callVars>>

\* the provider called by task i raises: _call_provider returns (key, [], err)
ProviderRaise(i) ==
  /\ pc = "gather"
  /\ tasks[i].st = "running"
  /\ tasks' = [tasks EXCEPT ![i] = [@ EXCEPT !.st = "raised", !.err = ErrText]]
  /\ UNCHANGED <<pool, maxChunk, countries, listed, pc, req, settled, merged, items, result, discoveryVars, countryVars, callVars>>

\* a providers_used that lists only the providers that returned
ProvidersUsedReturned(ts) ==
  LET ok == SelectSeq(ts, LAMBDA x : x.st = "returned") IN [i \in 1..Len(ok) |-> ok[i].key]

\* [p.key for p in providers]: one task was created per provider of the list
ProvidersUsed(ts) == [i \in 1..Len(ts) |-> ts[i].key]

\* results that come in the order the tasks completed
GatheredAsCompleted(ts, done) == [k \in 1..Len(done) |-> ts[done[k]]]

\* await asyncio.gather(*tasks, return_exceptions=True): the results in the
\* order of the tasks, whatever the order done in which they completed
Gathered(ts, done) == ts

\* _search_events_async after gather: merge, sanitize, dedupe, sort, slice
Finish ==
  /\ pc = "gather"
  /\ AllSettled(tasks)
  /\ LET all == MergeResults(Gathered(tasks, settled), req.country)
         deduped == Dedupe(all)
         raises == \/ \E i \in 1..Len(all) : DedupeKeyRaises(all[i])
                   \/ SortRaises(deduped)
         sorted == SortItems(deduped)
         page == Page(sorted, req.offset, req.limit)
     IN /\ merged' = all
        /\ items' = IF raises THEN <<>> ELSE sorted
        /\ result' =
             IF raises THEN [outcome |-> "raised"]
             ELSE [outcome |-> "returned",
                   count |-> Len(page),
                   total |-> Len(sorted),
                   items |-> page,
                   providers_used |-> ProvidersUsed(tasks),
                   debug |-> [provider_errors |-> ProviderErrors(tasks),
                              window |-> DateWindow(DefaultStartInDays, DefaultDaysAhead),
                              discovered |-> [i \in 1..Len(PROVIDERS) |-> PROVIDERS[i].key],
                              limit |-> req.limit,
                              offset |-> req.offset]]
  /\ pc' = "done"
  /\ UNCHANGED <<pool, maxChunk, countries, listed, req, tasks, settled, discoveryVars, countryVars, callVars>>

-----------------------------------------------------------------------------
(* Calls of the country coercion *)

\* _coerce_country(value, default)
CoerceCountryCall ==
  /\ cpc = "init"
  /\ coerced' = CoerceCountry(value, default)
  /\ cpc' = "coerce"
  /\ UNCHANGED <<value, default, discoveryVars, searchVars, callVars>>

\* _sanitize_item(ev, default_cc) as _search_events_async calls it: default is
\* the request's country, and default_cc is derived from it
SanitizeItemCall ==
  /\ cpc = "init"
  /\ LET ev == [title |-> None, url |-> None, start_time |-> None, venue_name |-> None,
                city |-> None, country |-> value, source |-> Missing]
         r == SanitizeItem(ev, DefaultCC(default))
     IN coerced' = IF r.keep THEN r.ev.country ELSE None
  /\ cpc' = "sanitize"
  /\ UNCHANGED <<value, default, discoveryVars, searchVars, callVars>>

-----------------------------------------------------------------------------
(* Scenarios: the inputs the specifications draw from *)

CountryAlphabet == {"l", "T", ".", " "}

NamedCountries ==
  {<<"L", "i", "t", "h", "u", "a", "n", "i", "a">>,
   <<"L", "I", "T", "H", "U", "A", "N", "I", "A">>,
   <<" ", "l", "i", "t", "h", "u", "a", "n", "i", "a", " ">>,
   <<"L", "i", "e", "t", "u", "v", "a">>,
   <<"G", "e", "r", "m", "a", "n", "y">>,
   <<"A", "t", "l", "a", "n", "t", "i", "s">>,
   <<"l", "t">>,
   <<"L", "T">>,
   <<"L", "t">>,
   <<"U", ".", "S", ".">>,
   <<"U", "S", "A">>}

DictValues ==
  {None, <<>>, <<"l", "t">>, <<"L", "i", "t", "h", "u", "a", "n", "i", "a">>, <<"D", "E">>, <<".">>,
   MkDict(None, None, <<"L", "a", "t", "v", "i", "a">>, None)}

CountryValues ==
  StringsUpTo(CountryAlphabet, MaxStrLen) \cup NamedCountries
    \cup {None, OtherValue, ListValue}
    \cup {MkDict(a, b, c, d) : a \in DictValues, b \in DictValues,
                                c \in DictValues, d \in DictValues}

CountryDefaults == {None, <<"L", "T">>, <<"d", "e">>}

\* the module leaves on disk, in scan order
ModLeaves == <<<<"a", "l", "p", "h", "a">>, <<"b", "e", "t", "a">>, <<"m", "o", "c", "k", "_", "l", "o", "c", "a", "l">>>>
PrivateLeaf == <<"_", "b", "a", "s", "e">>

ModShape(imp, fn, cls, fac, async) ==
  [imp |-> imp, fn |-> fn, cls |-> cls, fac |-> fac, async |-> async]

ModShapes ==
  {ModShape("raise", FALSE, "none", "none", FALSE),
   ModShape("ok", TRUE, "none", "none", FALSE),
   ModShape("ok", TRUE, "none", "none", TRUE),
   ModShape("ok", FALSE, "ok", "none", FALSE),
   ModShape("ok", FALSE, "raise", "none", FALSE),
   ModShape("ok", FALSE, "raise", "ok", FALSE),
   ModShape("ok", FALSE, "nosearch", "none", FALSE),
   ModShape("ok", FALSE, "nosearch", "ok", FALSE),
   ModShape("ok", FALSE, "none", "ok", TRUE),
   ModShape("ok", FALSE, "none", "raise", FALSE),
   ModShape("ok", FALSE, "none", "none", FALSE),
   ModShape("ok", TRUE, "ok", "ok", FALSE),
   ModShape("ok", FALSE, "ok", "ok", FALSE)}

\* a module named leaf of that shape, whose search declares city, country,
\* start, end and query
WithLeaf(shape, leaf) ==
  [leaf |-> leaf, imp |-> shape.imp, fn |-> shape.fn, cls |-> shape.cls,
   fac |-> shape.fac, async |-> shape.async, params |-> RawKwargs, sig |-> "ok"]

\* the same module with a search that declares the parameters ps; sig tells
\* whether inspect.signature can read it
WithParams(m, ps, sig) == [m EXCEPT !.params = ps, !.sig = sig]

\* the provider packages discovery is run on: one module per leaf, of any shape,
\* and possibly a private module ahead of them
ModConfigs ==
  LET public == {[i \in 1..Len(ModLeaves) |-> WithLeaf(f[i], ModLeaves[i])] :
                   f \in [1..Len(ModLeaves) -> ModShapes]}
  IN public \cup
     {<<WithLeaf(ModShape("ok", TRUE, "none", "none", FALSE), PrivateLeaf)>> \o ms :
        ms \in public}

\* the package of the fan-out scenarios: a module-level search, a Provider class
\* with an async search, and a mock provider
FanoutMods ==
  <<WithLeaf(ModShape("ok", TRUE, "none", "none", FALSE), ModLeaves[1]),
    WithLeaf(ModShape("ok", FALSE, "ok", "none", TRUE), ModLeaves[2]),
    WithLeaf(ModShape("ok", TRUE, "none", "none", FALSE), ModLeaves[3])>>

\* the package of the pipeline scenarios: one provider
PipelineMods ==
  <<WithLeaf(ModShape("ok", TRUE, "none", "none", FALSE), ModLeaves[1])>>

FanoutPool ==
  {[title |-> <<"J", "a", "z", "z">>, url |-> <<"u", "1">>, start_time |-> <<"2", "0", "2", "5", "-", "0", "6", "-", "0", "1", "T", "2", "0", ":", "0", "0", ":", "0", "0", "Z">>,
   venue_name |-> <<"B", "l", "u", "e">>, city |-> <<"V", "i", "l", "n", "i", "u", "s">>,
   country |-> <<"L", "T">>, source |-> Missing],
   [title |-> <<"R", "o", "c", "k">>, url |-> None, start_time |-> None,
   venue_name |-> None, city |-> None,
   country |-> MkDict(<<"l", "t">>, None, None, None), source |-> <<"w", "e", "b">>]}

JazzAt ==
  [title |-> <<"J", "a", "z", "z", " ", "N", "i", "g", "h", "t", " ", "a", "t", " ", "B", "l", "u", "e", " ", "N", "o", "t", "e">>, url |-> None, start_time |-> <<"2", "0", "2", "5", "-", "0", "6", "-", "0", "1", "T", "2", "0", ":", "0", "0", ":", "0", "0", "Z">>,
   venue_name |-> <<"B", "l", "u", "e", " ", "N", "o", "t", "e">>, city |-> <<"V", "i", "l", "n", "i", "u", "s">>,
   country |-> <<"L", "T">>, source |-> Missing]
JazzAtSign ==
  [title |-> <<"J", "a", "z", "z", " ", "N", "i", "g", "h", "t", " ", "@", " ", "B", "l", "u", "e", " ", "N", "o", "t", "e">>, url |-> None, start_time |-> <<"2", "0", "2", "5", "-", "0", "6", "-", "0", "1", "T", "2", "0", ":", "0", "0", ":", "0", "0", "Z">>,
   venue_name |-> <<"B", "l", "u", "e", " ", "N", "o", "t", "e">>, city |-> <<"V", "i", "l", "n", "i", "u", "s">>,
   country |-> <<"L", "T">>, source |-> Missing]

PipelinePool ==
  {JazzAt, JazzAtSign,
   [title |-> None, url |-> <<"u", "1">>, start_time |-> None,
   venue_name |-> None, city |-> None,
   country |-> None, source |-> Missing],
   [title |-> <<"a", "l", "p", "h", "a">>, url |-> <<"u", "1">>, start_time |-> <<"2", "0", "2", "5", "-", "0", "6", "-", "0", "1", "T", "2", "0", ":", "0", "0", ":", "0", "0", "Z">>,
   venue_name |-> <<"R", "e", "d", " ", "R", "o", "o", "m">>, city |-> <<"V", "i", "l", "n", "i", "u", "s">>,
   country |-> <<"L", "T">>, source |-> <<"w", "e", "b">>],
   [title |-> <<"Z", "e", "t", "a">>, url |-> <<"u", "3">>, start_time |-> <<"T", "B", "A">>,
   venue_name |-> None, city |-> <<"V", "i", "l", "n", "i", "u", "s">>,
   country |-> None, source |-> Missing],
   [title |-> <<" ", " ">>, url |-> None, start_time |-> None,
   venue_name |-> None, city |-> None,
   country |-> None, source |-> Missing],
   [title |-> <<>>, url |-> <<"u", "4">>, start_time |-> <<"2", "0", "2", "5", "-", "0", "5", "-", "3", "0", "T", "1", "8", ":", "0", "0", ":", "0", "0", "Z">>,
   venue_name |-> None, city |-> None,
   country |-> None, source |-> Missing]}

-----------------------------------------------------------------------------
(* Specifications *)

EmptyDiscovery ==
  [discovered_modules |-> <<>>, loaded |-> <<>>, skipped |-> <<>>,
   errors |-> [k \in {} |-> ""]]

DiscoveryOff ==
  /\ pkgMode = "ok"
  /\ mods = <<>>
  /\ PROVIDERS = <<>>
  /\ DISCOVERY = EmptyDiscovery
  /\ sfn = Unbound
  /\ runs = MaxRuns
  /\ loadOutcome = "none"

\* the aggregator module as imported: _load_providers() has run once on ms
Imported(ms) ==
  LET r == LoadResult("ok", ms, <<>>, None) IN
  /\ pkgMode = "ok"
  /\ mods = ms
  /\ PROVIDERS = r.providers
  /\ DISCOVERY = r.discovery
  /\ sfn = r.sfn
  /\ runs = MaxRuns
  /\ loadOutcome = r.outcome

NotListed == [include_mock |-> "NotCalled", providers |-> <<>>]

SearchIdleFor(p, n, cs) ==
  /\ pool = p
  /\ maxChunk = n
  /\ countries = cs
  /\ listed = NotListed
  /\ pc = "idle"
  /\ req = NoRequest
  /\ tasks = <<>>
  /\ settled = <<>>
  /\ merged = <<>>
  /\ items = <<>>
  /\ result = NoResult

SearchIdle(p, n) == SearchIdleFor(p, n, {<<"l", "t">>})

SearchOff ==
  /\ pool = {}
  /\ maxChunk = 0
  /\ countries = {}
  /\ listed = NotListed
  /\ pc = "off"
  /\ req = NoRequest
  /\ tasks = <<>>
  /\ settled = <<>>
  /\ merged = <<>>
  /\ items = <<>>
  /\ result = NoResult

NotCalled == "none"

CallOff ==
  /\ called = NotCalled
  /\ args = <<>>
  /\ ret = None

CountryOff ==
  /\ value = None
  /\ default = None
  /\ coerced = None
  /\ cpc = "off"

\* the fan-out: three providers, any of which returns or raises, in any order
Init == Imported(FanoutMods) /\ SearchIdle(FanoutPool, MaxChunk) /\ CountryOff /\ CallOff

\* the pipeline: one provider returning a longer list of more varied items
InitPipeline == Imported(PipelineMods) /\ SearchIdle(PipelinePool, MaxList) /\ CountryOff /\ CallOff

Next ==
  \/ StartSearch
  \/ \E i \in DOMAIN tasks : ProviderReturn(i)
  \/ \E i \in DOMAIN tasks : ProviderRaise(i)
  \/ Finish

Spec == Init /\ [][Next]_vars
SpecPipeline == InitPipeline /\ [][Next]_vars

\* discovery on any package, run up to MaxRuns times
InitDiscovery ==
  /\ pkgMode \in {"ok", "import_fails", "no_root"}
  /\ mods \in (IF pkgMode = "no_root" THEN {<<>>} ELSE ModConfigs)
  /\ PROVIDERS = <<>>
  /\ DISCOVERY = EmptyDiscovery
  /\ sfn = Unbound
  /\ runs = 0
  /\ loadOutcome = "none"
  /\ SearchIdle({}, 0)
  /\ CountryOff /\ CallOff

NextDiscovery == LoadProviders

SpecDiscovery == InitDiscovery /\ [][NextDiscovery]_vars

\* one call of the country coercion on any raw value
InitCountry ==
  /\ DiscoveryOff
  /\ SearchOff
  /\ value \in CountryValues
  /\ default \in CountryDefaults
  /\ coerced = None
  /\ cpc = "init"
  /\ CallOff

NextCountry == CoerceCountryCall \/ SanitizeItemCall

SpecCountry == InitCountry /\ [][NextCountry]_vars

-----------------------------------------------------------------------------
(* Claims about the fan-out *)

\* the fields of a raw item that neither _call_provider nor _sanitize_item rewrite
Core(e) == <<e.title, e.url, e.start_time, e.venue_name, e.city>>
CoreSeq(list) == [i \in 1..Len(list) |-> Core(list[i])]

\* what the providers that returned have returned, in task order
RECURSIVE ReturnedRaw(_)
ReturnedRaw(ts) ==
  IF ts = <<>> THEN <<>>
  ELSE (IF Head(ts).st = "returned" THEN Head(ts).ret ELSE <<>>) \o ReturnedRaw(Tail(ts))

\* C1: when providers raise, search_events still returns; the items it merges
\* (before dedupe, sort and paging) are all the items of the providers that
\* returned and only those; provider_errors has a key k exactly when the call of
\* provider k raised.
C1_PartialFailureIsolation ==
  pc = "done" =>
    /\ result.outcome = "returned"
    /\ CoreSeq(merged) = CoreSeq(ReturnedRaw(tasks))
    /\ DOMAIN result.debug.provider_errors =
         {tasks[i].key : i \in {j \in 1..Len(tasks) : tasks[j].st = "raised"}}

C1_Witness ==
  /\ pc = "done"
  /\ Len(tasks) = 3
  /\ tasks[2].st = "raised"
  /\ tasks[1].st = "returned" /\ tasks[1].ret # <<>>
  /\ tasks[3].st = "returned" /\ tasks[3].ret # <<>>
  /\ result.outcome = "returned"
  /\ result.total > 0
  /\ DOMAIN result.debug.provider_errors = {tasks[2].key}

\* C2: the result is built only after every active provider's call has settled,
\* each by returning or by raising; no call is left running or cancelled.
C2_ResultOnlyAfterAllSettled ==
  (pc = "done" \/ result # NoResult) =>
    \A i \in 1..Len(tasks) : tasks[i].st \in {"returned", "raised"}

\* one provider has finished early, another is still running: no result yet
C2_Witness ==
  /\ pc = "gather"
  /\ result = NoResult
  /\ \E i, j \in 1..Len(tasks) :
       tasks[i].st = "returned" /\ tasks[j].st = "running"

-----------------------------------------------------------------------------
(* Claims about dedupe, sort and paging *)

Returned == pc = "done" /\ result.outcome = "returned"
Among(list, e) == \E k \in 1..Len(list) : list[k] = e

\* C3: no two items the deduplicator returns share a non-empty url, and of the
\* items sharing a url the first encountered is the one kept.
C3_UniqueUrlFirstWins ==
  Returned =>
    /\ \A i, j \in 1..Len(items) :
         (i # j /\ Truthy(items[i].url)) => items[i].url # items[j].url
    /\ \A i \in 1..Len(merged) :
         (Truthy(merged[i].url) /\ \A j \in 1..(i - 1) : merged[j].url # merged[i].url)
           => Among(items, merged[i])

C3_Witness ==
  /\ Returned
  /\ \E i, j \in 1..Len(merged) :
       /\ i < j
       /\ Truthy(merged[i].url)
       /\ merged[i].url = merged[j].url
       /\ merged[i].title # merged[j].title
       /\ Among(items, merged[i])
       /\ ~Among(items, merged[j])

\* The similarity the specification asks of the fuzzy pass (section 4.4): a
\* token-set ratio of the two titles at or above the threshold. TokenSetRatioAtLeast
\* is a lower bound of the ratio: the shared tokens against each title's tokens.
FuzzyThreshold == 90

RECURSIVE Tokens(_)
Tokens(s) ==
  IF s = <<>> THEN {}
  ELSE IF Head(s) = " " THEN Tokens(Tail(s))
  ELSE LET stops == {i \in 1..Len(s) : s[i] = " "}
           n == IF stops = {} THEN Len(s) + 1 ELSE CHOOSE i \in stops : \A j \in stops : i <= j
       IN {SubSeq(s, 1, n - 1)} \cup Tokens(SubSeq(s, n, Len(s)))

RECURSIVE JoinedLen(_)
JoinedLen(T) ==
  IF T = {} THEN 0
  ELSE LET w == CHOOSE x \in T : TRUE
           rest == T \ {w}
       IN Len(w) + (IF rest = {} THEN 0 ELSE 1 + JoinedLen(rest))

TokenSetRatioAtLeast(t1, t2, threshold) ==
  LET both == Tokens(t1) \cap Tokens(t2)
      only1 == Tokens(t1) \ both
      only2 == Tokens(t2) \ both
      sect == JoinedLen(both)
      with1 == sect + 1 + JoinedLen(only1)
      with2 == sect + 1 + JoinedLen(only2)
  IN /\ both # {}
     /\ \/ only1 = {}
        \/ only2 = {}
        \/ 200 * sect >= threshold * (sect + with1)
        \/ 200 * sect >= threshold * (sect + with2)

\* the same real-world event by the fuzzy rule: similar titles, the same non-empty
\* venue_name, and start times on the same day
SameEventFuzzy(a, b) ==
  /\ IsStr(a.title) /\ IsStr(b.title)
  /\ TokenSetRatioAtLeast(a.title, b.title, FuzzyThreshold)
  /\ Truthy(a.venue_name) /\ a.venue_name = b.venue_name
  /\ IsStr(a.start_time) /\ IsStr(b.start_time)
  /\ Prefix(a.start_time, 10) = Prefix(b.start_time, 10)

\* C4: two records with fuzzy-similar titles, the same non-empty venue_name and
\* start dates at most one day apart collapse to one record of the search result,
\* the earlier-encountered one, whatever their urls.
C4_FuzzyDuplicatesCollapse ==
  Returned =>
    \A i, j \in 1..Len(merged) :
      (i < j /\ merged[i] # merged[j] /\ SameEventFuzzy(merged[i], merged[j]))
        => ~(Among(items, merged[i]) /\ Among(items, merged[j]))

\* C5: no item of the result has a missing, empty or whitespace-only title.
C5_NoEmptyTitle ==
  Returned =>
    \A k \in 1..Len(result.items) :
      /\ IsStr(result.items[k].title)
      /\ Strip(result.items[k].title) # <<>>

Min(a, b) == IF a < b THEN a ELSE b
Max(a, b) == IF a < b THEN b ELSE a

\* C8: the page is exactly the elements at positions offset .. offset+limit-1 of
\* the sorted deduplicated list, count is min(limit, max(0, total - offset)) and
\* total is the size of that list.
C8_PageIsSlice ==
  Returned =>
    /\ result.total = Len(items)
    /\ result.count = Min(req.limit, Max(0, result.total - req.offset))
    /\ Len(result.items) = result.count
    /\ \A k \in 1..result.count : result.items[k] = items[req.offset + k]

C8_Witness ==
  /\ Returned
  /\ req.offset > 0
  /\ result.total > req.offset + req.limit
  /\ result.count = req.limit
  /\ result.items[1] = items[req.offset + 1]
  /\ result.items[1] # items[1]

HasStart(e) == Truthy(Get(e, "start_time"))

\* C9: the items of a result are in ascending order of start_time, every item
\* without a start_time comes after every item that has one, and items with the
\* same start_time are in the order of their titles (compared without case).
C9_SortedByStartThenTitle ==
  Returned =>
    \A i, j \in 1..Len(result.items) :
      i < j =>
        LET a == result.items[i]
            b == result.items[j]
        IN /\ (HasStart(a) /\ HasStart(b)) => ~StrLess(b.start_time, a.start_time)
           /\ ~(~HasStart(a) /\ HasStart(b))
           /\ ((HasStart(a) /\ HasStart(b) /\ a.start_time = b.start_time)
                 \/ (~HasStart(a) /\ ~HasStart(b)))
                => ~StrLess(Lower(OrEmpty(b.title)), Lower(OrEmpty(a.title)))

-----------------------------------------------------------------------------
(* Claims about the country coercion *)

IsIso2(c) == IsStr(c) /\ Len(c) = 2 /\ IsAlpha(c) /\ Upper(c) = c

\* C6: for every country value and any 2-letter default, the country produced
\* is None or exactly two uppercase letters.
C6_CountryIsIso2OrNone ==
  (cpc \in {"coerce", "sanitize"} /\ IsIso2(default))
    => (coerced = None \/ IsIso2(coerced))

IsCode(v) == IsStr(v) /\ Len(v) = 2 /\ IsAlpha(v)
IsKnownName(v) == IsStr(v) /\ Lower(v) \in DOMAIN COUNTRY_ALIASES
Iso2Of(v) == IF IsKnownName(v) THEN COUNTRY_ALIASES[Lower(v)] ELSE Upper(v)

\* the value a dict holds under the first of countryCode, addressCountry, name,
\* code that is not empty
FirstHeld(d) ==
  LET hits == {i \in 1..Len(DictKeys) : Truthy(DictGet(d, i))} IN
  IF hits = {} THEN None ELSE DictGet(d, CHOOSE i \in hits : \A j \in hits : i <= j)

-----------------------------------------------------------------------------
(* Claims about discovery *)

IsPublic(m) == ~StartsWith(m.leaf, <<"_">>)
HasEntryPoint(m) == m.imp = "ok" /\ (m.fn \/ m.cls = "ok" \/ m.fac = "ok")
IsLoaded(m) == \E k \in 1..Len(PROVIDERS) : PROVIDERS[k].module = ModName(m)

\* C10: discovery never raises, and every public module with a valid search
\* entry point is in the adapter list after the run, whatever other modules'
\* import, Provider() or get_provider() raised.
C10_DiscoveryIsolatesFailures ==
  runs > 0 =>
    /\ loadOutcome = "returned"
    /\ \A i \in 1..Len(mods) :
         (IsPublic(mods[i]) /\ HasEntryPoint(mods[i])) => IsLoaded(mods[i])

C10_Witness ==
  /\ runs > 0
  /\ loadOutcome = "returned"
  /\ \E i, j, k \in 1..Len(mods) :
       /\ i < k /\ j < k /\ i # j
       /\ mods[i].imp = "raise"
       /\ mods[j].imp = "ok" /\ ~mods[j].fn /\ (mods[j].cls = "raise" \/ mods[j].fac = "raise")
       /\ ~HasEntryPoint(mods[j])
       /\ HasEntryPoint(mods[k])
       /\ IsLoaded(mods[k])
       /\ ~IsLoaded(mods[i]) /\ ~IsLoaded(mods[j])

-----------------------------------------------------------------------------
(* Claims about re-discovery *)

\* what the first run of _load_providers() leaves, starting from the empty ledger
FirstRun == LoadResult(pkgMode, mods, <<>>, None)

\* C11: after a second run of discovery on the same modules the adapter list and
\* the whole ledger (discovered_modules, loaded, skipped, errors) equal their
\* state after the first run.
C11_RediscoveryIdempotent ==
  runs >= 1 =>
    /\ PROVIDERS = FirstRun.providers
    /\ DISCOVERY = FirstRun.discovery

-----------------------------------------------------------------------------
(* The facade: search_events and list_providers as callers use them *)

\* include_mock of list_providers is Optional[bool]
IncludeMockArgs == {"None", "True", "False"}

\* list_providers(include_mock)
ListProviders(providers, include_mock) ==
  LET ps == ActiveProviders(providers, IF include_mock = "False" THEN FALSE ELSE TRUE)
  IN [i \in 1..Len(ps) |->
        [key |-> ps[i].key,
         name |-> IF Truthy(ps[i].name) THEN ps[i].name ELSE ps[i].key,
         module |-> ps[i].module]]

ListProvidersCall ==
  /\ pc # "off"
  /\ listed = NotListed
  /\ \E a \in IncludeMockArgs :
       listed' = [include_mock |-> a, providers |-> ListProviders(PROVIDERS, a)]
  /\ UNCHANGED <<pool, maxChunk, countries, pc, req, tasks, settled, merged, items, result,
                 discoveryVars, countryVars, callVars>>

MaxFacadeChunk == 1

\* the country arguments of the facade scenario: codes in both cases, a name,
\* one letter, two characters that are not letters, and the empty string
CountryArgs ==
  {<<"l", "t">>, <<"L", "T">>, <<"L", "i", "t", "h", "u", "a", "n", "i", "a">>,
   <<"l">>, <<"1", "!">>, <<>>}

\* the package of the facade scenario: a provider and a mock provider
FacadeMods ==
  <<WithLeaf(ModShape("ok", TRUE, "none", "none", FALSE), ModLeaves[1]),
    WithLeaf(ModShape("ok", TRUE, "none", "none", TRUE), ModLeaves[3])>>

\* a package with nothing but the mock provider: with include_mock false no
\* provider is active
MockOnlyMods == <<WithLeaf(ModShape("ok", TRUE, "none", "none", TRUE), ModLeaves[3])>>

InitFacade ==
  /\ \E ms \in {FacadeMods, MockOnlyMods} : Imported(ms)
  /\ SearchIdleFor(FanoutPool, MaxFacadeChunk, CountryArgs)
  /\ CountryOff /\ CallOff

NextFacade == Next \/ ListProvidersCall

SpecFacade == InitFacade /\ [][NextFacade]_vars

\* C12: a request whose country is not exactly two letters is rejected before
\* the fan-out: no provider is invoked for it and no normal result is returned.
C12_BadCountryRejected ==
  (pc \in {"gather", "done"} /\ ~IsCode(req.country)) =>
    /\ tasks = <<>>
    /\ pc = "done" => result.outcome # "returned"


-----------------------------------------------------------------------------
(* Items with malformed fields *)

\* a raw item as a provider builds it, without country and source
RawItem(title, url, start_time, venue_name, city) ==
  [title |-> title, url |-> url, start_time |-> start_time, venue_name |-> venue_name,
   city |-> city, country |-> None, source |-> Missing]

\* a well-formed item, an item with an unhashable url, one with a number for a
\* title, one with a datetime for a start_time (as providers/mock_local.py builds)
MalformedPool ==
  {RawItem(<<"J", "a", "z", "z">>, None, <<"2", "0", "2", "5", "-", "0", "6", "-", "0", "1", "T", "2", "0", ":", "0", "0", ":", "0", "0", "Z">>, <<"B", "l", "u", "e", " ", "N", "o", "t", "e">>, <<"V", "i", "l", "n", "i", "u", "s">>),
   RawItem(<<"R", "o", "c", "k">>, ListValue, <<"2", "0", "2", "5", "-", "0", "6", "-", "0", "1", "T", "2", "0", ":", "0", "0", ":", "0", "0", "Z">>, None, None),
   RawItem(OtherValue, <<"u", "1">>, None, None, None),
   RawItem(<<"I", "n", "d", "i", "e">>, <<"u", "2">>, DateTimeValue, None, <<"V", "i", "l", "n", "i", "u", "s">>)}

InitMalformed == Imported(PipelineMods) /\ SearchIdle(MalformedPool, MaxList) /\ CountryOff /\ CallOff

SpecMalformed == InitMalformed /\ [][Next]_vars

\* C13: search_events returns a result, without raising, for every list of dict
\* items a provider returns, whatever the types of their title, url, venue_name,
\* city and start_time.
C13_MalformedNeverRaises ==
  pc = "done" => result.outcome = "returned"

-----------------------------------------------------------------------------
(* Claims about the facade *)

IsMockKey(key) == Contains(Lower(key), MockWord)
KeysOf(list) == {list[i].key : i \in 1..Len(list)}
MockKeys == {k \in KeysOf(PROVIDERS) : IsMockKey(k)}

\* C14: with include_mock false, list_providers returns no provider whose key
\* contains "mock" and search_events neither calls such a provider nor lists it
\* in providers_used; with include_mock true the mock providers are included.
C14_MockFilter ==
  /\ listed.include_mock = "False" =>
       KeysOf(listed.providers) = KeysOf(PROVIDERS) \ MockKeys
  /\ listed.include_mock = "True" => KeysOf(listed.providers) = KeysOf(PROVIDERS)
  /\ pc \in {"gather", "done"} =>
       KeysOf(tasks) = (IF req.include_mock THEN KeysOf(PROVIDERS)
                        ELSE KeysOf(PROVIDERS) \ MockKeys)
  /\ (pc = "done" /\ result.outcome = "returned") =>
       {result.providers_used[i] : i \in 1..Len(result.providers_used)} =
         (IF req.include_mock THEN KeysOf(PROVIDERS) ELSE KeysOf(PROVIDERS) \ MockKeys)

C14_Witness ==
  /\ MockKeys # {}
  /\ listed.include_mock = "False"
  /\ KeysOf(listed.providers) # KeysOf(PROVIDERS)
  /\ pc = "done" /\ result.outcome = "returned"
  /\ ~req.include_mock
  /\ \A i \in 1..Len(result.providers_used) : ~IsMockKey(result.providers_used[i])
  /\ Len(result.providers_used) > 0

-----------------------------------------------------------------------------
(* Providers with different search signatures *)

\* the signatures of the scenario: search(city, country, start, end, query)
\* and search(city, country)
ParamSets == {RawKwargs, {"city", "country"}}

\* one module of the scenario: a module-level search or a Provider class, with
\* either signature, readable by inspect.signature or not
KwargsModules(leaf) ==
  {WithParams(WithLeaf(ModShape("ok", fn, IF fn THEN "none" ELSE "ok", "none", FALSE), leaf),
              ps, sig) :
     fn \in BOOLEAN, ps \in ParamSets, sig \in {"ok", "raises"}}

KwargsPool == {JazzAt}

InitKwargs ==
  /\ \E a \in KwargsModules(ModLeaves[1]), b \in KwargsModules(ModLeaves[2]) :
       Imported(<<a, b>>)
  /\ SearchIdle(KwargsPool, MaxFacadeChunk)
  /\ CountryOff /\ CallOff

SpecKwargs == InitKwargs /\ [][Next]_vars

\* C15: every keyword argument passed to a provider is a parameter the search
\* that is called declares, so no call fails on an unexpected keyword.
C15_OnlyDeclaredKwargs ==
  \A i \in 1..Len(tasks) :
    tasks[i].kwargs \subseteq CalleeParams(mods, tasks[i].provider, sfn)


ResultKeys == {"count", "total", "items", "providers_used", "debug"}
DebugKeys == {"provider_errors", "window", "discovered", "limit", "offset"}

\* C16: every result of search_events, whether the providers succeed or fail or
\* none is active, has count, total, items, providers_used and a debug block
\* with provider_errors, window, discovered, limit and offset, and providers_used
\* lists exactly the keys of the providers called for the request.
C16_ResultShape ==
  pc = "done" =>
    /\ result.outcome = "returned"
    /\ ResultKeys \subseteq DOMAIN result
    /\ DebugKeys \subseteq DOMAIN result.debug
    /\ DOMAIN result.debug.window = {"start", "end"}
    /\ result.providers_used = [i \in 1..Len(tasks) |-> tasks[i].key]
    /\ result.count = Len(result.items)
    /\ result.debug.limit = req.limit /\ result.debug.offset = req.offset

\* every provider called has failed
C16_Witness ==
  /\ pc = "done"
  /\ Len(tasks) = 2
  /\ \A i \in 1..Len(tasks) : tasks[i].st = "raised"
  /\ result.outcome = "returned"
  /\ result.count = 0
  /\ Len(result.providers_used) = 2
  /\ DOMAIN result.debug.provider_errors = {tasks[1].key, tasks[2].key}



-----------------------------------------------------------------------------
(* providers/base.py: price coercion *)

\* a Python value handed to _coerce_min_price: its type and what str() makes of
\* it (StrRaises when its __str__ raises)
StrRaises == <<"raises">>
PyValue(type, text) == [type |-> type, str |-> text]
PyNone == PyValue("NoneType", <<"N", "o", "n", "e">>)

\* a float: sign * num * 10^exp with num not a multiple of 10, or inf, or nan
Finite(sign, num, exp) == [type |-> "float", kind |-> "finite", sign |-> sign, num |-> num, exp |-> exp]
Special(sign, kind) == [type |-> "float", kind |-> kind, sign |-> sign, num |-> 0, exp |-> 0]
ValueError == [type |-> "ValueError", kind |-> "raised", sign |-> 0, num |-> 0, exp |-> 0]

Digits == <<"0", "1", "2", "3", "4", "5", "6", "7", "8", "9">>
IsDigit(c) == IsIn(Digits, c)
DigitVal(c) == IndexIn(Digits, c) - 1

\* digits, with single underscores between digits allowed (PEP 515)
IsDigitString(s) ==
  /\ s # <<>>
  /\ \A i \in 1..Len(s) :
       \/ IsDigit(s[i])
       \/ s[i] = "_" /\ i > 1 /\ i < Len(s) /\ IsDigit(s[i - 1]) /\ IsDigit(s[i + 1])

RECURSIVE ToNat(_, _)
ToNat(s, acc) ==
  IF s = <<>> THEN acc
  ELSE IF Head(s) = "_" THEN ToNat(Tail(s), acc)
  ELSE ToNat(Tail(s), 10 * acc + DigitVal(Head(s)))

DigitCount(s) == Len(SelectSeq(s, IsDigit))

RECURSIVE Normalize(_, _, _)
Normalize(sign, num, exp) ==
  IF num = 0 THEN Finite(sign, 0, 0)
  ELSE IF num % 10 = 0 THEN Normalize(sign, num \div 10, exp + 1)
  ELSE Finite(sign, num, exp)

FirstIndex(s, cs) ==
  LET hits == {i \in 1..Len(s) : s[i] \in cs} IN
  IF hits = {} THEN 0 ELSE CHOOSE i \in hits : \A j \in hits : i <= j

\* the unsigned decimal numeral: digits [. digits] [e [sign] digits]
ParseDecimal(sign, s) ==
  LET e == FirstIndex(s, {"e", "E"})
      mant == IF e = 0 THEN s ELSE SubSeq(s, 1, e - 1)
      expo == IF e = 0 THEN <<>> ELSE SubSeq(s, e + 1, Len(s))
      esign == IF expo # <<>> /\ Head(expo) = "-" THEN -1 ELSE 1
      edigits == IF expo # <<>> /\ Head(expo) \in {"+", "-"} THEN Tail(expo) ELSE expo
      d == FirstIndex(mant, {"."})
      whole == IF d = 0 THEN mant ELSE SubSeq(mant, 1, d - 1)
      frac == IF d = 0 THEN <<>> ELSE SubSeq(mant, d + 1, Len(mant))
  IN IF /\ (e = 0 \/ IsDigitString(edigits))
        /\ (whole = <<>> \/ IsDigitString(whole))
        /\ (frac = <<>> \/ IsDigitString(frac))
        /\ (whole # <<>> \/ frac # <<>>)
     THEN Normalize(sign, ToNat(whole \o frac, 0),
                    (IF e = 0 THEN 0 ELSE esign * ToNat(edigits, 0)) - DigitCount(frac))
     ELSE ValueError

\* float(s) for a str s
ParseFloat(text) ==
  LET s == Strip(text)
      sign == IF s # <<>> /\ Head(s) = "-" THEN -1 ELSE 1
      body == IF s # <<>> /\ Head(s) \in {"+", "-"} THEN Tail(s) ELSE s
  IN IF Lower(body) \in {<<"i", "n", "f">>, <<"i", "n", "f", "i", "n", "i", "t", "y">>} THEN Special(sign, "inf")
     ELSE IF Lower(body) = <<"n", "a", "n">> THEN Special(sign, "nan")
     ELSE ParseDecimal(sign, body)

\* a coercion without the try/except
CoerceMinPriceNoCatch(v) ==
  IF v = PyNone THEN PyNone
  ELSE IF v.str = StrRaises THEN ValueError
  ELSE IF Strip(v.str) = <<>> THEN PyNone
  ELSE ParseFloat(Strip(v.str))

\* _coerce_min_price(v)
CoerceMinPrice(v) ==
  IF v = PyNone THEN PyNone
  ELSE IF v.str = StrRaises THEN PyNone
  ELSE LET s == Strip(v.str) IN
       IF s = <<>> THEN PyNone
       ELSE IF ParseFloat(s) = ValueError THEN PyNone
       ELSE ParseFloat(s)

CoerceMinPriceCall ==
  /\ called = NotCalled
  /\ ret' = CoerceMinPrice(args)
  /\ called' = "_coerce_min_price"
  /\ UNCHANGED <<args, discoveryVars, searchVars, countryVars>>


PriceAlphabet == {"1", "0", ".", "-", " ", "x"}

NamedPrices ==
  {<<"n", "o", "t", "-", "a", "-", "n", "u", "m", "b", "e", "r">>, <<" ", "1", "2", ".", "5", "0", " ">>, <<"1", "e", "3">>, <<"1", "_", "0">>, <<"+", "5">>, <<"1", "2", ",", "5">>, <<"1", ".", "2", ".", "3">>, <<"n", "a", "n">>, <<"-", "i", "n", "f">>, <<"I", "n", "f", "i", "n", "i", "t", "y">>, <<"1", "e">>, <<"_", "1">>}

\* the values handed to the coercion: None, strings, numbers, and other objects
PriceValues ==
  {PyNone}
    \cup {PyValue("str", s) : s \in StringsUpTo(PriceAlphabet, MaxStrLen) \cup NamedPrices}
    \cup {PyValue("int", <<"5">>), PyValue("float", <<"2", ".", "5">>), PyValue("bool", <<"T", "r", "u", "e">>),
          PyValue("list", <<"[", "]">>), PyValue("dict", <<"{", "}">>), PyValue("object", StrRaises)}

InitPrice ==
  /\ DiscoveryOff
  /\ SearchOff
  /\ CountryOff
  /\ called = NotCalled
  /\ args \in PriceValues
  /\ ret = PyNone

NextPrice == CoerceMinPriceCall

SpecPrice == InitPrice /\ [][NextPrice]_vars

-----------------------------------------------------------------------------
(* Claims about price coercion *)

\* a text float() reads as inf or nan
IsSpecialFloatText(s) ==
  LET b == Strip(s)
      body == IF b # <<>> /\ Head(b) \in {"+", "-"} THEN Tail(b) ELSE b
  IN Lower(body) \in {<<"i", "n", "f">>, <<"i", "n", "f", "i", "n", "i", "t", "y">>, <<"n", "a", "n">>}

\* C17: price coercion never raises and returns a number or None; it returns None
\* for None, for an empty or whitespace-only string, for a string that is no
\* numeral, and for any object that is neither a number nor a string; a number
\* and a numeral yield their value.
C17_PriceCoercion ==
  called = "_coerce_min_price" =>
    /\ ret = PyNone \/ ret.type = "float"
    /\ args = PyNone => ret = PyNone
    /\ args.type \in {"bool", "list", "dict", "object"} => ret = PyNone
    /\ (args.type = "str" /\ Strip(args.str) = <<>>) => ret = PyNone
    /\ (args.type = "str" /\ DigitCount(args.str) = 0 /\ ~IsSpecialFloatText(args.str))
         => ret = PyNone
    /\ (args.type = "str" /\ \E i \in 1..Len(args.str) : args.str[i] \in {"x", ","})
         => ret = PyNone
    /\ args = PyValue("int", <<"5">>) => ret = Finite(1, 5, 0)
    /\ args = PyValue("float", <<"2", ".", "5">>) => ret = Finite(1, 25, -1)
    /\ args = PyValue("str", <<" ", "1", "2", ".", "5", "0", " ">>) => ret = Finite(1, 125, -1)
    /\ args = PyValue("str", <<"1", "e", "3">>) => ret = Finite(1, 1, 3)
    /\ args = PyValue("str", <<"-", "1">>) => ret = Finite(-1, 1, 0)

C17_Witness ==
  /\ called = "_coerce_min_price"
  /\ args = PyValue("str", <<"n", "o", "t", "-", "a", "-", "n", "u", "m", "b", "e", "r">>)
  /\ ret = PyNone


-----------------------------------------------------------------------------
(* Records of one title at several venues *)

JazzNight(venue_name, url) ==
  RawItem(<<"J", "a", "z", "z", " ", "N", "i", "g", "h", "t">>, url, <<"2", "0", "2", "5", "-", "0", "6", "-", "0", "1", "T", "2", "0", ":", "0", "0", ":", "0", "0", "Z">>, venue_name, <<"V", "i", "l", "n", "i", "u", "s">>)

\* "Jazz Night" on one evening in one city: at Blue Note, at Red Room, at Red
\* Room with a url, at a venue written "blue note ", and without a venue
VenuePool ==
  {JazzNight(<<"B", "l", "u", "e", " ", "N", "o", "t", "e">>, None), JazzNight(<<"R", "e", "d", " ", "R", "o", "o", "m">>, None),
   JazzNight(<<"R", "e", "d", " ", "R", "o", "o", "m">>, <<"u", "1">>), JazzNight(<<"b", "l", "u", "e", " ", "n", "o", "t", "e", " ">>, None), JazzNight(None, None)}

InitVenues == Imported(PipelineMods) /\ SearchIdle(VenuePool, MaxList) /\ CountryOff /\ CallOff

SpecVenues == InitVenues /\ [][Next]_vars

\* the venue as _dedupe compares it
VenueOf(e) == Lower(Strip(OrEmpty(Get(e, "venue_name"))))
SharedUrl(a, b) == Truthy(Get(a, "url")) /\ Get(a, "url") = Get(b, "url")

\* C18: two records with the same title, different venues (compared trimmed and
\* without case, as the exact-key pass does) and no shared url both survive
\* deduplication and both are in the result's list (each as itself or as an
\* earlier exact duplicate of it).
C18_DifferentVenuesSurvive ==
  (pc = "done" /\ result.outcome = "returned") =>
    \A i, j \in 1..Len(merged) :
      (VenueOf(merged[i]) # VenueOf(merged[j]) /\ ~SharedUrl(merged[i], merged[j]))
        => \E a, b \in 1..Len(items) :
             /\ a # b
             /\ items[a].title = merged[i].title /\ VenueOf(items[a]) = VenueOf(merged[i])
             /\ items[b].title = merged[j].title /\ VenueOf(items[b]) = VenueOf(merged[j])

C18_Witness ==
  /\ pc = "done" /\ result.outcome = "returned"
  /\ \E i, j \in 1..Len(items) :
       /\ i # j
       /\ items[i].title = items[j].title
       /\ items[i].venue_name = <<"B", "l", "u", "e", " ", "N", "o", "t", "e">>
       /\ items[j].venue_name = <<"R", "e", "d", " ", "R", "o", "o", "m">>
       /\ items[i].url = None /\ items[j].url = None

-----------------------------------------------------------------------------
(* services/guardrails.py *)

ADULT_TAGS == {"kink", "bdsm", "fetish", "adult"}
AdultAge == 18

\* a date is <<year, month, day>>; NoDate stands for user_birthday = None
NoDate == <<0, 0, 0>>

\* (a.month, a.day) < (b.month, b.day)
MonthDayLess(a, b) == a[2] < b[2] \/ (a[2] = b[2] /\ a[3] < b[3])

\* an age that is the difference of the years only
AgeByYear(today, user_birthday) == today[1] - user_birthday[1]

\* age = today.year - user_birthday.year - ((today.month, today.day) < (birthday.month, birthday.day))
Age(today, user_birthday) ==
  today[1] - user_birthday[1] - (IF MonthDayLess(today, user_birthday) THEN 1 ELSE 0)

IsAllowedEventByYear(user_birthday, event_tags, today) ==
  IF user_birthday = NoDate THEN TRUE
  ELSE ~(AgeByYear(today, user_birthday) < AdultAge /\ (ADULT_TAGS \cap event_tags) # {})

\* is_allowed_event(user_birthday, event_tags), with date.today() = today
IsAllowedEvent(user_birthday, event_tags, today) ==
  IF user_birthday = NoDate THEN TRUE
  ELSE ~(Age(today, user_birthday) < AdultAge /\ (ADULT_TAGS \cap event_tags) # {})

IsAllowedEventCall ==
  /\ called = NotCalled
  /\ ret' = IsAllowedEvent(args.user_birthday, args.event_tags, args.today)
  /\ called' = "is_allowed_event"
  /\ UNCHANGED <<args, discoveryVars, searchVars, countryVars>>

IsLeap(y) == y % 4 = 0 /\ (y % 100 # 0 \/ y % 400 = 0)

\* the days the scenario reads the clock on, and the birthdays around the
\* eighteenth anniversary on those days
Todays == {<<2026, 6, 15>>, <<2026, 2, 28>>, <<2026, 3, 1>>}
Birthdays ==
  {d \in {2007, 2008, 2009, 1990} \X {2, 3, 6, 7} \X {1, 14, 15, 16, 28, 29} :
     d[2] = 2 /\ d[3] = 29 => IsLeap(d[1])}
TagSets == SUBSET {"kink", "adult", "music", "Adult"}

InitGuardrails ==
  /\ DiscoveryOff
  /\ SearchOff
  /\ CountryOff
  /\ called = NotCalled
  /\ args \in [user_birthday : Birthdays \cup {NoDate}, event_tags : TagSets, today : Todays]
  /\ ret = TRUE

NextGuardrails == IsAllowedEventCall

SpecGuardrails == InitGuardrails /\ [][NextGuardrails]_vars

\* a < b for two dates
DateLess(a, b) ==
  \/ a[1] < b[1]
  \/ a[1] = b[1] /\ MonthDayLess(a, b)

\* the user has not reached the eighteenth anniversary of the birthday
Under18(user_birthday, today) ==
  DateLess(today, <<user_birthday[1] + AdultAge, user_birthday[2], user_birthday[3]>>)

\* C19: is_allowed_event returns False exactly when the birthday is known, the
\* user is under 18 on the day of the call, and event_tags has an adult tag.
C19_IsAllowedEvent ==
  called = "is_allowed_event" =>
    (ret = FALSE <=>
       /\ args.user_birthday # NoDate
       /\ Under18(args.user_birthday, args.today)
       /\ args.event_tags \cap ADULT_TAGS # {})

\* a user who turns 18 later in the year of the call is blocked
C19_Witness ==
  /\ called = "is_allowed_event"
  /\ args.user_birthday # NoDate
  /\ args.today[1] - args.user_birthday[1] = AdultAge
  /\ MonthDayLess(args.today, args.user_birthday)
  /\ "kink" \in args.event_tags
  /\ ret = FALSE

-----------------------------------------------------------------------------
(* services/recommend.py *)

MaxPassions == 2
PriceCap == 100
BonusPercent == 25

\* a score is counted in units of 1/(PriceCap * 100): 1.0 is One, and the
\* bonus max(0.0, 1.0 - min(price, 100) / 100.0) * 0.25 is
\* max(0, 100 - min(price, 100)) * 25 of these units
One == PriceCap * 100

\* the value under "min_price": type "absent" when the dict has no such key,
\* type "nan" for float('nan'); val is the number of an int, float or bool
Price(type, val) == [type |-> type, val |-> val]

\* isinstance(price, (int, float))
IsNumber(price) == price.type \in {"int", "float", "bool", "nan"}

\* max(0.0, 1.0 - min(price, 100) / 100.0) * 0.25; min(nan, 100) is nan and
\* max(0.0, nan) is 0.0
PriceBonus(price) ==
  IF price.type = "nan" THEN 0
  ELSE (IF PriceCap - (IF PriceCap < price.val THEN PriceCap ELSE price.val) > 0
        THEN PriceCap - (IF PriceCap < price.val THEN PriceCap ELSE price.val)
        ELSE 0) * BonusPercent

RECURSIVE PassionMatches(_, _, _)
\* the number of passions p with p.lower() in title or p.lower() in category
PassionMatches(title, category, passions) ==
  IF passions = <<>> THEN 0
  ELSE (IF Contains(title, Lower(Head(passions))) \/ Contains(category, Lower(Head(passions)))
        THEN 1 ELSE 0) + PassionMatches(title, category, Tail(passions))

RECURSIVE PassionMatchesExact(_, _, _)
\* the same count with the passions compared as given
PassionMatchesExact(title, category, passions) ==
  IF passions = <<>> THEN 0
  ELSE (IF Contains(title, Head(passions)) \/ Contains(category, Head(passions))
        THEN 1 ELSE 0) + PassionMatchesExact(title, category, Tail(passions))

\* a scorer that lower-cases neither the event's text nor the passions
ScoreEventCaseSensitive(event, passions) ==
  PassionMatchesExact(OrEmpty(event.title), OrEmpty(event.category), passions) * One
  + (IF IsNumber(event.min_price) THEN PriceBonus(event.min_price) ELSE 0)

\* score_event(event, passions)
ScoreEvent(event, passions) ==
  PassionMatches(Lower(OrEmpty(event.title)), Lower(OrEmpty(event.category)), passions) * One
  + (IF IsNumber(event.min_price) THEN PriceBonus(event.min_price) ELSE 0)

ScoreEventCall ==
  /\ called = NotCalled
  /\ ret' = ScoreEvent(args.event, args.passions)
  /\ called' = "score_event"
  /\ UNCHANGED <<args, discoveryVars, searchVars, countryVars>>

\* the events and passions of the scenario: titles and categories in both
\* cases, None and empty; prices absent, None, zero, below, at and above 100
RankerTitles == {None, <<>>, <<"J", "a", "z">>, <<"j", "a", "z">>, <<"A", "R", "T">>}
RankerCategories == {None, <<"a", "r", "t">>, <<"J", "A", "Z">>, <<"p", "o", "p">>}
RankerPrices ==
  {Price("absent", 0), Price("NoneType", 0), Price("str", 0), Price("nan", 0),
   Price("int", 0), Price("int", 20), Price("int", 100), Price("int", 150),
   Price("float", 0 - 5), Price("bool", 1)}
RankerPassions == {<<>>, <<"j", "a">>, <<"A", "Z">>, <<"a", "r", "t">>, <<"x">>}
PassionLists == UNION {[1..n -> RankerPassions] : n \in 0..MaxPassions}

InitRanker ==
  /\ DiscoveryOff
  /\ SearchOff
  /\ CountryOff
  /\ called = NotCalled
  /\ args \in [event : [title : RankerTitles, category : RankerCategories,
                        min_price : RankerPrices],
               passions : PassionLists]
  /\ ret = 0

NextRanker == ScoreEventCall

SpecRanker == InitRanker /\ [][NextRanker]_vars

\* text contains p when letters are compared without regard to case
ContainsIgnoreCase(text, p) ==
  \E i \in 1..(Len(text) - Len(p) + 1) :
    \A k \in 1..Len(p) : UpperChar(text[i + k - 1]) = UpperChar(p[k])

MatchesPassion(event, p) ==
  \/ ContainsIgnoreCase(OrEmpty(event.title), p)
  \/ ContainsIgnoreCase(OrEmpty(event.category), p)

\* C20: score_event is strictly positive for every event whose title or
\* category contains, case-insensitively, one of the passions, whatever
\* min_price is.
C20_MatchScoresPositive ==
  (/\ called = "score_event"
   /\ \E i \in 1..Len(args.passions) : MatchesPassion(args.event, args.passions[i]))
    => ret > 0

\* a match in the other case with a price above 100 scores exactly 1.0
C20_Witness ==
  /\ called = "score_event"
  /\ args.event.title = <<"J", "a", "z">>
  /\ args.event.category = None
  /\ args.passions = << <<"A", "Z">> >>
  /\ args.event.min_price = Price("int", 150)
  /\ ret = One

-----------------------------------------------------------------------------
(* Claims C21..C30 *)

\* the adapters discovery built around an instance's search
WrappedAdapters == {k \in 1..Len(PROVIDERS) : PROVIDERS[k].via \in {"Provider", "get_provider"}}

\* C21: when discovery loaded two or more providers through the Provider class
\* or get_provider(), calling adapter k's callable calls the search of provider
\* k's own instance.
C21_AdapterCallsOwnSearch ==
  Cardinality(WrappedAdapters) >= 2 =>
    \A k \in WrappedAdapters :
      Callee(PROVIDERS[k], sfn) = BoundSearch(PROVIDERS[k].module, PROVIDERS[k].via)


\* the request parameters a provider may declare besides the five of RawKwargs
RequestParams == {"days_ahead", "start_in_days", "limit", "offset"}

\* the signatures of the scenario: search(city, country, days_ahead,
\* start_in_days, query) as providers/web.py declares it, and a search that
\* takes the window and the page
BridgeMods ==
  <<WithParams(WithLeaf(ModShape("ok", TRUE, "none", "none", FALSE), ModLeaves[1]),
               {"city", "country", "days_ahead", "start_in_days", "query"}, "ok"),
    WithParams(WithLeaf(ModShape("ok", TRUE, "none", "none", FALSE), ModLeaves[2]),
               RawKwargs \cup {"limit", "offset"}, "ok")>>

InitBridge ==
  /\ Imported(BridgeMods)
  /\ SearchIdle(KwargsPool, MaxFacadeChunk)
  /\ CountryOff /\ CallOff

SpecBridge == InitBridge /\ [][Next]_vars

\* the parameters adapter p's own search declares
OwnParams(ms, p) == ModuleOf(ms, p.wrapped.module).params

\* C22: each of days_ahead, start_in_days, limit and offset that a provider's
\* search declares is among the arguments the executor passes to it.
C22_RequestParamsPassed ==
  \A i \in 1..Len(tasks) :
    (RequestParams \cap OwnParams(mods, tasks[i].provider)) \subseteq tasks[i].kwargs


\* the modules of the ledger's loaded, skipped and errors entries
LoadedModules == {DISCOVERY.loaded[i].module : i \in 1..Len(DISCOVERY.loaded)}
SkippedModules == {DISCOVERY.skipped[i].module : i \in 1..Len(DISCOVERY.skipped)}
ErroredModules == DOMAIN DISCOVERY.errors \ {PackageKey}

\* the number of ledger entries that name mod_name
LedgerEntries(mod_name) ==
  Cardinality({i \in 1..Len(DISCOVERY.loaded) : DISCOVERY.loaded[i].module = mod_name})
  + Cardinality({i \in 1..Len(DISCOVERY.skipped) : DISCOVERY.skipped[i].module = mod_name})
  + (IF mod_name \in ErroredModules THEN 1 ELSE 0)

\* C23: after a discovery run every discovered module is in exactly one of
\* loaded, skipped and errors.
C23_ExactlyOneLedgerEntry ==
  runs >= 1 =>
    \A i \in 1..Len(DISCOVERY.discovered_modules) :
      LedgerEntries(DISCOVERY.discovered_modules[i]) = 1


-----------------------------------------------------------------------------
(* The fan-out with the order of completion observed *)

\* the provider called by task i returns; the task is the next to complete
ProviderReturnNext(i) ==
  /\ pc = "gather"
  /\ tasks[i].st = "running"
  /\ Callee(tasks[i].provider, sfn).via \in {"function", "Provider", "get_provider"}
  /\ tasks[i].kwargs \subseteq CalleeParams(mods, tasks[i].provider, sfn)
  /\ \E chunk \in Chunks(pool, maxChunk) :
       tasks' = [tasks EXCEPT ![i] = [@ EXCEPT !.st = "returned", !.ret = chunk,
                                        !.items = CallProviderItems(tasks[i].key, chunk)]]
  /\ settled' = Append(settled, i)
  /\ UNCHANGED <<pool, maxChunk, countries, listed, pc, req, merged, items, result, discoveryVars, countryVars, callVars>>

\* the provider called by task i raises; the task is the next to complete
ProviderRaiseNext(i) ==
  /\ pc = "gather"
  /\ tasks[i].st = "running"
  /\ tasks' = [tasks EXCEPT ![i] = [@ EXCEPT !.st = "raised", !.err = ErrText]]
  /\ settled' = Append(settled, i)
  /\ UNCHANGED <<pool, maxChunk, countries, listed, pc, req, merged, items, result, discoveryVars, countryVars, callVars>>

\* two records with one dedupe key that differ in the case of the city, as two
\* providers return the same event
OrderPool == {JazzAt, [JazzAt EXCEPT !.city = Upper(JazzAt.city)]}

InitOrder ==
  /\ Imported(FanoutMods)
  /\ SearchIdle(OrderPool, MaxFacadeChunk)
  /\ CountryOff /\ CallOff

NextOrder ==
  \/ StartSearch
  \/ \E i \in DOMAIN tasks : ProviderReturnNext(i)
  \/ \E i \in DOMAIN tasks : ProviderRaiseNext(i)
  \/ Finish

SpecOrder == InitOrder /\ [][NextOrder]_vars

\* what task i contributes to the merge
Contribution(i) ==
  IF tasks[i].st = "returned" THEN SanitizeChunk(tasks[i].items, DefaultCC(req.country))
  ELSE <<>>

\* the tasks that contributed a record with the title and start of e
Holders(e) ==
  {i \in 1..Len(tasks) :
     \E k \in 1..Len(Contribution(i)) :
       /\ Contribution(i)[k].title = e.title
       /\ Contribution(i)[k].start_time = e.start_time}

\* C24: the result is the same for every order in which the provider calls
\* complete: it is what the outputs give when taken in the order of the
\* provider list, and of duplicate records the one of the earliest provider in
\* that list survives.
C24_CompletionOrderIrrelevant ==
  (pc = "done" /\ result.outcome = "returned") =>
    /\ items = SortItems(Dedupe(MergeResults(tasks, req.country)))
    /\ result.total = Len(items)
    /\ result.items = Page(items, req.offset, req.limit)
    /\ result.debug.provider_errors = ProviderErrors(tasks)
    /\ \A k \in 1..Len(items) :
         \E i \in Holders(items[k]) :
           /\ \A j \in Holders(items[k]) : i <= j
           /\ Among(Contribution(i), items[k])

\* the second provider completed first with a duplicate of what the first
\* provider returned later, and the first provider's record survived
C24_Witness ==
  /\ pc = "done"
  /\ result.outcome = "returned"
  /\ Len(settled) >= 2
  /\ settled[1] = 2
  /\ settled[2] = 1
  /\ tasks[1].st = "returned" /\ tasks[1].ret = <<JazzAt>>
  /\ tasks[2].st = "returned" /\ tasks[2].ret = <<[JazzAt EXCEPT !.city = Upper(JazzAt.city)]>>
  /\ Len(items) = 1
  /\ items[1].source = tasks[1].key


\* the shape _load_providers resolves for module m: the first of module-level
\* search, Provider class, get_provider() that gives a callable search
FirstShape(m) ==
  IF m.fn THEN "function"
  ELSE IF m.cls = "ok" THEN "Provider"
  ELSE IF m.fac = "ok" THEN "get_provider"
  ELSE "none"

\* the number of shapes module m offers
ShapesOffered(m) ==
  (IF m.fn THEN 1 ELSE 0) + (IF m.cls # "none" THEN 1 ELSE 0) + (IF m.fac # "none" THEN 1 ELSE 0)

AdaptersOf(mod_name) == {k \in 1..Len(PROVIDERS) : PROVIDERS[k].module = mod_name}
LoadedEntriesOf(mod_name) ==
  {k \in 1..Len(DISCOVERY.loaded) : DISCOVERY.loaded[k].module = mod_name}

\* C25: a module that offers more than one shape yields exactly one adapter and
\* one loaded entry, built from the first shape that resolves in the order
\* module-level search, Provider class, get_provider().
C25_FirstShapeWins ==
  (runs >= 1 /\ pkgMode # "no_root") =>
    \A j \in 1..Len(mods) :
      (/\ IsPublic(mods[j])
       /\ mods[j].imp = "ok"
       /\ ShapesOffered(mods[j]) >= 2
       /\ FirstShape(mods[j]) # "none") =>
        /\ Cardinality(AdaptersOf(ModName(mods[j]))) = 1
        /\ Cardinality(LoadedEntriesOf(ModName(mods[j]))) = 1
        /\ \A k \in AdaptersOf(ModName(mods[j])) :
             /\ PROVIDERS[k].via = FirstShape(mods[j])
             /\ PROVIDERS[k].wrapped = BoundSearch(ModName(mods[j]), FirstShape(mods[j]))
        /\ \A k \in LoadedEntriesOf(ModName(mods[j])) :
             DISCOVERY.loaded[k].via = FirstShape(mods[j])

\* a module with a search function, a Provider class and a factory was loaded
\* through the function, and one with class and factory through the class
C25_Witness ==
  /\ runs >= 1
  /\ \E j \in 1..Len(mods) :
       /\ mods[j].fn /\ mods[j].cls = "ok" /\ mods[j].fac = "ok"
       /\ \E k \in AdaptersOf(ModName(mods[j])) : PROVIDERS[k].via = "function"
  /\ \E j \in 1..Len(mods) :
       /\ ~mods[j].fn /\ mods[j].cls = "ok" /\ mods[j].fac = "ok"
       /\ \E k \in AdaptersOf(ModName(mods[j])) : PROVIDERS[k].via = "Provider"


\* a string that, trimmed, is neither a 2-letter code nor a known alias or name
IsUnknownCountryText(v) ==
  IsStr(v) /\ ~IsCode(Strip(v)) /\ ~IsKnownName(Strip(v))

IsUnsupportedCountryType(v) == v # None /\ ~IsDict(v) /\ ~IsStr(v)

\* C26: for a string that is neither a 2-letter code nor a known alias or full
\* name, and for a value of an unsupported type, the coercion returns the
\* caller's default.
C26_UnknownCountryGivesDefault ==
  (cpc = "coerce" /\ (IsUnknownCountryText(value) \/ IsUnsupportedCountryType(value)))
    => coerced = default


\* C27: after fan-out every item a provider returned without a source carries
\* the key of that provider, and an item that had a source keeps it; nothing
\* else of the item changes.
C27_SourceDefaulted ==
  \A i \in 1..Len(tasks) :
    tasks[i].st = "returned" =>
      /\ Len(tasks[i].items) = Len(tasks[i].ret)
      /\ \A k \in 1..Len(tasks[i].ret) :
           /\ tasks[i].items[k].source =
                (IF tasks[i].ret[k].source = Missing THEN tasks[i].key
                 ELSE tasks[i].ret[k].source)
           /\ Core(tasks[i].items[k]) = Core(tasks[i].ret[k])
           /\ pc = "done" => \E n \in 1..Len(merged) :
                               /\ Core(merged[n]) = Core(tasks[i].ret[k])
                               /\ merged[n].source = tasks[i].items[k].source

\* one provider returned an item without a source and one that names its own
C27_Witness ==
  /\ pc = "done"
  /\ \E i \in 1..Len(tasks) :
       /\ tasks[i].st = "returned"
       /\ Len(tasks[i].ret) = 2
       /\ tasks[i].ret[1].source = Missing
       /\ tasks[i].ret[2].source = <<"w", "e", "b">>
       /\ tasks[i].items[1].source = tasks[i].key
       /\ tasks[i].items[2].source = <<"w", "e", "b">>


-----------------------------------------------------------------------------
(* providers/base.py build_event and services/normalize.py normalize_event *)

\* re.sub(r"\s+", " ", s): every maximal run of whitespace becomes one space
RECURSIVE CollapseWs(_)
CollapseWs(s) ==
  IF s = <<>> THEN <<>>
  ELSE IF IsSpaceChar(Head(s))
    THEN IF Len(s) >= 2 /\ IsSpaceChar(s[2]) THEN CollapseWs(Tail(s))
         ELSE <<" ">> \o CollapseWs(Tail(s))
  ELSE <<Head(s)>> \o CollapseWs(Tail(s))

\* _clean(s) of providers/base.py
Clean(s) == IF ~Truthy(s) THEN None ELSE Strip(CollapseWs(s))

\* normalize_text(s) of services/normalize.py
NormalizeText(s) == IF ~Truthy(s) THEN None ELSE Strip(CollapseWs(s))

WebSource == <<"w", "e", "b">>

\* build_event(title, start_time, city, country, url, venue_name, category,
\* source); the fields left at None by the caller stay None
BuildEvent(a) ==
  [id |-> None,
   source |-> IF Truthy(a.source) THEN a.source ELSE WebSource,
   title |-> Strip(OrEmpty(a.title)),
   category |-> Clean(a.category),
   start_time |-> a.start_time,
   city |-> Clean(a.city),
   country |-> CoerceCountry(a.country, None),
   venue_name |-> Clean(a.venue_name),
   url |-> a.url]

\* normalize_event(e); the id is the hash of the four cleaned fields
NormalizeEvent(a) ==
  LET e == [a EXCEPT !.title = NormalizeText(a.title),
                     !.venue_name = NormalizeText(a.venue_name),
                     !.city = NormalizeText(a.city)]
  IN [id |-> <<"sha1", e.title, e.start_time, e.venue_name, e.city>>,
      source |-> e.source, title |-> e.title, category |-> e.category,
      start_time |-> e.start_time, city |-> e.city, country |-> e.country,
      venue_name |-> e.venue_name, url |-> e.url]

BuildEventCall ==
  /\ called = NotCalled
  /\ ret' = BuildEvent(args)
  /\ called' = "build_event"
  /\ UNCHANGED <<args, discoveryVars, searchVars, countryVars>>

NormalizeEventCall ==
  /\ called = NotCalled
  /\ ret' = NormalizeEvent(args)
  /\ called' = "normalize_event"
  /\ UNCHANGED <<args, discoveryVars, searchVars, countryVars>>

\* the free texts of the scenario: None, empty, blank, and texts with leading,
\* trailing and inner runs of spaces and tabs
FreeTexts ==
  {None, <<>>, <<" ">>, <<"a", " ", "b">>, <<"a", " ", " ", "b">>,
   <<" ", "a", " ">>, <<"a", "\t", "b">>, <<"a", " ", "\t", "b">>}

InitNormalizer ==
  /\ DiscoveryOff
  /\ SearchOff
  /\ CountryOff
  /\ called = NotCalled
  /\ args \in [title : FreeTexts, venue_name : FreeTexts, city : FreeTexts,
               category : {None}, start_time : {None}, url : {None},
               country : {None, <<"l", "t">>}, source : {None}]
  /\ ret = None

NextNormalizer == BuildEventCall \/ NormalizeEventCall

SpecNormalizer == InitNormalizer /\ [][NextNormalizer]_vars

\* s has no leading or trailing whitespace, and its only whitespace is single
\* spaces
IsTidy(s) ==
  /\ s = Strip(s)
  /\ \A i \in 1..Len(s) :
       IsSpaceChar(s[i]) => (s[i] = " " /\ (i < Len(s) => ~IsSpaceChar(s[i + 1])))

\* C28: in every record the normalizer produces, title, venue_name and city
\* have no leading or trailing whitespace and no run of whitespace other than
\* a single space.
C28_FreeTextTidy ==
  called \in {"build_event", "normalize_event"} =>
    /\ IsStr(ret.title) => IsTidy(ret.title)
    /\ IsStr(ret.venue_name) => IsTidy(ret.venue_name)
    /\ IsStr(ret.city) => IsTidy(ret.city)


-----------------------------------------------------------------------------
(* Relevance of two events: services/recommend.py and the score of app.py *)

\* score(ev) of app.py, with passions = {p.lower() for p in the profile's}
AppScore(event, passions) ==
  LET ps == {Lower(passions[i]) : i \in 1..Len(passions)}
      t == Lower(OrEmpty(event.title))
      c == Lower(OrEmpty(event.category))
  IN 3 * Cardinality({p \in ps : Contains(t, p)})
     + 2 * Cardinality({p \in ps : Contains(c, p)})

\* score_event(a, passions) and score_event(b, passions), as rank_events
\* compares them
ScoreEventPairCall ==
  /\ called = NotCalled
  /\ ret' = <<ScoreEvent(args.a, args.passions), ScoreEvent(args.b, args.passions)>>
  /\ called' = "score_event"
  /\ UNCHANGED <<args, discoveryVars, searchVars, countryVars>>

\* score(a) and score(b), as items.sort(key=score) of app.py compares them
AppScorePairCall ==
  /\ called = NotCalled
  /\ ret' = <<AppScore(args.a, args.passions), AppScore(args.b, args.passions)>>
  /\ called' = "score"
  /\ UNCHANGED <<args, discoveryVars, searchVars, countryVars>>

RelevanceEvents ==
  [title : {None, <<"J", "a", "z">>, <<"p", "o", "p">>},
   category : {None, <<"j", "a", "z">>, <<"a", "r", "t">>},
   min_price : {Price("absent", 0), Price("int", 20)}]
RelevancePassions == {<<"j", "a">>, <<"A", "R">>}

InitRelevance ==
  /\ DiscoveryOff
  /\ SearchOff
  /\ CountryOff
  /\ called = NotCalled
  /\ args \in [a : RelevanceEvents, b : RelevanceEvents,
               passions : UNION {[1..n -> RelevancePassions] : n \in 0..MaxPassions}]
  /\ ret = <<0, 0>>

NextRelevance == ScoreEventPairCall \/ AppScorePairCall

SpecRelevance == InitRelevance /\ [][NextRelevance]_vars

\* a and b differ in nothing but title and category; the one keyword occurs in
\* the title of a, and in b only in the category
TitleAgainstCategory(a, b, passions) ==
  /\ Len(passions) = 1
  /\ a.min_price = b.min_price
  /\ ContainsIgnoreCase(OrEmpty(a.title), passions[1])
  /\ ~ContainsIgnoreCase(OrEmpty(b.title), passions[1])
  /\ ContainsIgnoreCase(OrEmpty(b.category), passions[1])

\* C29: of two events that differ only in where the keyword occurs, the one
\* with the keyword in the title scores strictly higher than the one with the
\* keyword only in the category.
C29_TitleBeatsCategory ==
  (called \in {"score_event", "score"} /\ TitleAgainstCategory(args.a, args.b, args.passions))
    => ret[1] > ret[2]


-----------------------------------------------------------------------------
(* services/aggregator.py _date_window, with the clock as an input *)

MaxDaysAhead == 3
MaxStartInDays == 2

\* a datetime in UTC: the number of its day and <<hour, minute, second, microsecond>>
DateTime(day, time) == [day |-> day, time |-> time]

\* dt + timedelta(days=n)
PlusDays(dt, n) == [dt EXCEPT !.day = @ + n]

\* dt.replace(hour=h, minute=m, second=s, microsecond=0)
ReplaceTime(dt, h, m, s) == [dt EXCEPT !.time = <<h, m, s, 0>>]

\* a window whose end is computed from a second reading of the clock
DateWindowTwoReadings(clock, start_in_days, days_ahead) ==
  <<ReplaceTime(PlusDays(clock[1], start_in_days), 0, 0, 0),
    ReplaceTime(PlusDays(clock[2], start_in_days + days_ahead), 23, 59, 59)>>

\* _date_window(start_in_days, days_ahead); clock[1] is what datetime.now(utc)
\* returns when the function reads it, clock[2] what a later reading would
DateWindowAt(clock, start_in_days, days_ahead) ==
  LET now == clock[1] IN
  <<ReplaceTime(PlusDays(now, start_in_days), 0, 0, 0),
    ReplaceTime(PlusDays(now, start_in_days + days_ahead), 23, 59, 59)>>

DateWindowCall ==
  /\ called = NotCalled
  /\ ret' = DateWindowAt(args.clock, args.start_in_days, args.days_ahead)
  /\ called' = "_date_window"
  /\ UNCHANGED <<args, discoveryVars, searchVars, countryVars>>

\* the clock of the scenario: a first reading at midnight, during the day or
\* in the last microsecond of a day, and a later reading that is the same
\* instant or the first microsecond after it
ClockTimes == {<<0, 0, 0, 0>>, <<12, 30, 15, 500000>>, <<23, 59, 59, 999999>>}
Tick(dt) ==
  IF dt.time = <<23, 59, 59, 999999>> THEN DateTime(dt.day + 1, <<0, 0, 0, 0>>)
  ELSE [dt EXCEPT !.time[4] = @ + 1]
InitWindow ==
  /\ DiscoveryOff
  /\ SearchOff
  /\ CountryOff
  /\ called = NotCalled
  /\ \E now \in {DateTime(d, t) : d \in 0..1, t \in ClockTimes} :
       \E later \in {now, Tick(now)} :
         \E s \in 0..MaxStartInDays, a \in 0..MaxDaysAhead :
           args = [clock |-> <<now, later>>, start_in_days |-> s, days_ahead |-> a]
  /\ ret = <<>>

NextWindow == DateWindowCall

SpecWindow == InitWindow /\ [][NextWindow]_vars

\* a < b for two datetimes
TimeLess(a, b) ==
  \/ a[1] < b[1]
  \/ a[1] = b[1] /\ a[2] < b[2]
  \/ a[1] = b[1] /\ a[2] = b[2] /\ a[3] < b[3]
  \/ a[1] = b[1] /\ a[2] = b[2] /\ a[3] = b[3] /\ a[4] < b[4]
DateTimeLess(a, b) == a.day < b.day \/ (a.day = b.day /\ TimeLess(a.time, b.time))

\* C30: for start_in_days >= 0 and days_ahead >= 1 the window starts at
\* 00:00:00 of the day start_in_days after the day of the clock reading, ends
\* at 23:59:59 of the day start_in_days + days_ahead after it, and start is
\* strictly before end.
C30_WindowBounds ==
  (called = "_date_window" /\ args.start_in_days >= 0 /\ args.days_ahead >= 1) =>
    /\ ret[1] = DateTime(args.clock[1].day + args.start_in_days, <<0, 0, 0, 0>>)
    /\ ret[2] = DateTime(args.clock[1].day + args.start_in_days + args.days_ahead,
                         <<23, 59, 59, 0>>)
    /\ DateTimeLess(ret[1], ret[2])

\* the clock was read in the last microsecond of a day and passed midnight
\* right after: the window still counts from the day of the reading
C30_Witness ==
  /\ called = "_date_window"
  /\ args.clock[1] = DateTime(0, <<23, 59, 59, 999999>>)
  /\ args.clock[2] = DateTime(1, <<0, 0, 0, 0>>)
  /\ args.start_in_days = 1
  /\ args.days_ahead = 2
  /\ ret = <<DateTime(1, <<0, 0, 0, 0>>), DateTime(3, <<23, 59, 59, 0>>)>>

====
